---- MODULE Spec2Model ----
(***************************************************************************)
(* Transformation graph builder of bindings/go/transform/graph.            *)
(*                                                                         *)
(* Two implementations of Builder.NewTransferGraph are modelled:           *)
(*   impl = "dag"        builder.go: build nodes, dependency graph,        *)
(*                       topological sort, expression validation;          *)
(*   impl = "processor"  the two-pass builder: vertices, dependency        *)
(*                       discovery, static plugin analysis pass, runtime   *)
(*                       evaluation pass over the graph processor.         *)
(* The dag package (AddVertex, AddEdge, TopologicalSort, GraphProcessor),  *)
(* getTransformationNodes and discoverDependencies are not part of the     *)
(* sources at hand and follow the specification document.                  *)
(*                                                                         *)
(* The parts beside the builder have specifications of their own:          *)
(*   SpecTypeCheck       validateExpressionType of builder.go;             *)
(*   SpecParser          parseString of the parser;                        *)
(*   SpecSchema          SchemaDeclType of the JSON schema provider;       *)
(*   SpecRegistry        the registries of external plugins;               *)
(*   SpecMapper          the schema mapper;                                *)
(*   SpecClassify        the static or dynamic kind of an expression;      *)
(*   SpecRevalidate      the re-validation of the static ProcessValue;     *)
(*   SpecResolve         runtimeTypesFromTransformation;                   *)
(*   SpecBounds          the bounds read by the JSON schema adaptor;       *)
(*   SpecBuilds          two calls of NewTransferGraph on one Builder.     *)
(* WouldMatchIfUnwrapped, isStandaloneExpression and extractExpressions    *)
(* follow the specification document as well.                              *)
(***************************************************************************)
EXTENDS Integers, Sequences, FiniteSets, TLC

VARIABLES
    impl,                    \* which NewTransferGraph runs
    tgd,                     \* the graph definition: sequence of [id, refs]
    pc,                      \* position inside NewTransferGraph
    nodes,                   \* transformations built so far, in declaration order
    vertices,                \* vertex ids of the dependency graph
    edges,                   \* edges <<child, parent>> of the dependency graph
    dependencies,            \* Transformation.dependencies, per node id
    discovered,              \* node ids whose expressions have been inspected
    unknown,                 \* history: the unknown identifiers the inspector has reported
    topologicalOrder,        \* Graph.TopologicalOrder
    declTypes,               \* EnvBuilder.declTypes
    envOptions,              \* EnvBuilder.envOptions: variable bindings
    state,                   \* state[p][n]: state of node n in pass p
    visit,                   \* position of the visit in flight, per node id
    snapshot,                \* the bindings CurrentEnv read for the type-check of a node
    prototype,               \* transformation.prototype of the visited copy
    analyzedTransformations, \* StaticPluginAnalysisProcessor.analyzedTransformations
    evaluated,               \* node ids whose expressions were evaluated at runtime
    program,                 \* the checked form the runtime pass made a program of, per node id
    procErr,                 \* procErr[p]: first error recorded by the processor of pass p
    failures,                \* history: the failed visits, in the order they failed
    context,                 \* the node ids whose outputs the evaluation of a node was given
    outputs,                 \* RuntimeEvaluationProcessor.transformations: outputs stored by id
    cancelled,               \* the caller has raised its cancellation signal
    typecheck,               \* one call of validateExpressionType and what it returned
    parsed,                  \* one call of parseString and what it returned
    translated,              \* one call of SchemaDeclType and what it returned
    registry,                \* a plugin registry, its plugins and its callers
    mapper,                  \* a DefaultSchemaMapper and its callers
    classified,              \* one template variable in the loop of buildDependencyGraph
    revalidated,             \* the field descriptors of one node at their re-validation
    runtimeTypes,            \* one call of runtimeTypesFromTransformation and what it returned
    bound,                   \* one read of a numeric bound of a schema and what it gave
    builds,                  \* concurrent calls of NewTransferGraph and their environment builders
    result,                  \* what NewTransferGraph returned: "none", "graph", "error"
    err                      \* the error NewTransferGraph returned

vars == <<impl, tgd, pc, nodes, vertices, edges, dependencies, discovered, unknown,
          topologicalOrder, declTypes, envOptions, state, visit, snapshot,
          prototype, analyzedTransformations, evaluated, program, procErr, failures,
          context, outputs, cancelled, typecheck, parsed, translated, registry,
          mapper, classified, revalidated, runtimeTypes, bound, builds, result, err>>

graphVars == <<vertices, edges, dependencies, discovered, unknown, topologicalOrder>>
envVars   == <<declTypes, envOptions>>
passVars  == <<state, visit, snapshot, prototype, analyzedTransformations,
               evaluated, program, procErr, failures, context>>
\* what no step of NewTransferGraph writes
idleVars  == <<outputs, cancelled, typecheck, parsed, translated, registry, mapper,
               classified, revalidated, runtimeTypes, bound, builds>>
\* what a call outside NewTransferGraph leaves alone
builderVars == <<impl, tgd, pc, nodes, graphVars, envVars, passVars, outputs,
                 cancelled, result, err>>

----------------------------------------------------------------------------
(* Bounds and the input space                                              *)

MaxNodes == 3
MaxRefs == 2
MaxLen == 5
Concurrency == 1

Ids == {"a", "b", "c"}
IdAt == <<"a", "b", "c">>
Passes == {1, 2}

Min(x, y) == IF x < y THEN x ELSE y

\* the reserved pseudo-vertex name: "schema" in builder.go, the constant
\* "environment" of NewEnvBuilder in the two-pass builder
PseudoVertex(i) == IF i = "dag" THEN "schema" ELSE "environment"

\* the node ids the expressions of one node mention; whether they also
\* mention the pseudo-vertex is read when the expressions are inspected
RefSets == {r \in SUBSET Ids : Cardinality(r) <= MaxRefs}

\* the identifiers the inspector reports for the expressions of a node
Inspected(refs, pseudo, usesPseudo) == IF usesPseudo THEN refs \cup {pseudo} ELSE refs

\* node ids are interchangeable: node k takes one of the first k names
Definitions ==
    UNION {{t \in [1..k -> [id : Ids, refs : RefSets]] :
              \A j \in 1..k : \E m \in 1..Min(j, Len(IdAt)) : t[j].id = IdAt[m]}
           : k \in 0..MaxNodes}

\* the checked form of the expressions of a node: what env.Compile made of
\* them against the bindings of an environment; NoAST for the nil AST
NoAST == [of |-> "-", env |-> <<>>]
Compile(n, options) == [of |-> n, env |-> options]

\* the entry of a node id that analyzedTransformations does not hold
NotAnalyzed == [present |-> FALSE, prototype |-> "none", AST |-> NoAST]

\* an error: its kind, the node it is about and the identifiers it names
NoErr == [kind |-> "none", node |-> "-", names |-> {}]
Error(k, n) == [kind |-> k, node |-> n, names |-> {}]
ErrorNaming(k, n, ids) == [kind |-> k, node |-> n, names |-> ids]

\* the functions outside the permitted vocabulary an expression may call
Functions == {"f"}

NodeIds(ns) == {ns[i].id : i \in DOMAIN ns}
\* the declaration with id n (the first, when an id is repeated)
NodeOf(ns, n) == ns[CHOOSE i \in DOMAIN ns : ns[i].id = n /\ \A j \in 1..(i-1) : ns[j].id # n]
Order(ns, n) == CHOOSE i \in DOMAIN ns : ns[i].id = n /\ \A j \in 1..(i-1) : ns[j].id # n

\* a cel.Type: its kind and, for a wrapper or a list, its parameter
CelType(k, p) == [kind |-> k, param |-> p]
DynType == CelType("dyn", "none")
StringType == CelType("string", "none")
IntType == CelType("int", "none")

\* the nil error of validateExpressionType
NoTypeError == [kind |-> "none", node |-> "-", path |-> "-", output |-> <<>>,
                expected |-> <<>>, hint |-> FALSE]

\* no call of validateExpressionType, no call of parseString
NoCheck == [phase |-> "idle", node |-> "-", path |-> "-", outputType |-> DynType,
            expectedType |-> DynType, err |-> NoTypeError]
NoParse == [phase |-> "idle", field |-> <<>>, schema |-> "string", path |-> "-",
            descriptors |-> <<>>, err |-> "none", message |-> <<>>]

\* a *uint64: nil, or the address of a value
NilPtr == [nil |-> TRUE, value |-> <<0, 0, 0, 0>>]
Ptr(v) == [nil |-> FALSE, value |-> v]

\* a schema without items
NoItems == [nil |-> TRUE, exposed |-> FALSE, minSerializedSize |-> 0]

\* the nil *DeclType
NilDeclType == [name |-> "nil", maxElements |-> <<0, 0, 0, 0>>]

\* no call of SchemaDeclType
NoTranslation ==
    [phase |-> "idle",
     schema |-> [type |-> "", format |-> "", maxLength |-> NilPtr, enum |-> <<>>,
                 maxItems |-> NilPtr, items |-> NoItems],
     declType |-> NilDeclType]

\* the plugin types, the plugins and the goroutines that call a registry or
\* a schema mapper
Types == {"t1", "t2"}
Plugins == {"p1", "p2"}
Callers == {"g1", "g2"}

\* a goroutine outside any call
NoCall == [n |-> 0, pc |-> "idle", op |-> "-", typ |-> "-", arg |-> "-",
           held |-> "-", ret |-> "-"]

\* no plugin registry
NoRegistry ==
    [kind |-> "none", mu |-> "free",
     registry |-> [t \in Types |-> "-"],
     first |-> [t \in Types |-> "-"],
     constructedPlugins |-> {},
     process |-> [p \in Plugins |-> FALSE],
     spawned |-> [p \in Plugins |-> 0],
     added |-> [n |-> 0, plugin |-> "-", candidates |-> {}, taken |-> {},
                ret |-> "-"],
     caller |-> [c \in Callers |-> NoCall],
     calls |-> 0]

\* no schema mapper
NoMapper ==
    [made |-> FALSE, mu |-> "free",
     typeToSchema |-> [t \in Types |-> "-"],
     first |-> [t \in Types |-> "-"],
     caller |-> [c \in Callers |-> NoCall],
     calls |-> 0]

\* no template variable in the loop
NoClassification ==
    [phase |-> "idle", names |-> {}, expressions |-> <<>>, next |-> 1,
     Kind |-> "static", dependencies |-> {}, err |-> "none"]

\* no node at the re-validation of its field descriptors
NoRevalidation ==
    [phase |-> "idle", spec |-> <<>>, env |-> <<>>, fieldDescriptors |-> <<>>,
     specSchema |-> <<>>, validatedFieldDescriptors |-> <<>>, kept |-> <<>>,
     err |-> "none"]

\* no call of runtimeTypesFromTransformation
NoResolution ==
    [phase |-> "idle", fieldDescriptors |-> <<>>, static |-> "-",
     ret |-> [type |-> "nil", of |-> 0], err |-> "none"]

\* no numeric bound of a schema read
NoBound ==
    [phase |-> "idle", adaptor |-> "-", field |-> "-", raw |-> "-",
     ret |-> [kind |-> "none", value |-> "-"]]

\* no concurrent calls of NewTransferGraph
NoBuilds == [calls |-> <<>>, envBuilders |-> <<>>]

\* the builder before NewTransferGraph is called
InitBuilder ==
    /\ pc = "build"
    /\ nodes = <<>>
    /\ vertices = {}
    /\ edges = {}
    /\ dependencies = [n \in Ids |-> <<>>]
    /\ discovered = {}
    /\ unknown = [resources |-> {}, functions |-> {}]
    /\ topologicalOrder = <<>>
    /\ declTypes = <<>>
    /\ envOptions = <<>>
    /\ state = [p \in Passes |-> [n \in Ids |-> "Pending"]]
    /\ visit = [n \in Ids |-> "idle"]
    /\ snapshot = [n \in Ids |-> <<>>]
    /\ prototype = [n \in Ids |-> "none"]
    /\ analyzedTransformations = [n \in Ids |-> NotAnalyzed]
    /\ evaluated = {}
    /\ program = [n \in Ids |-> NoAST]
    /\ procErr = [p \in Passes |-> NoErr]
    /\ failures = <<>>
    /\ context = [n \in Ids |-> {}]
    /\ outputs = {}
    /\ cancelled = FALSE
    /\ result = "none"
    /\ err = NoErr

Init ==
    /\ impl \in {"dag", "processor"}
    /\ tgd \in Definitions
    /\ InitBuilder
    /\ typecheck = NoCheck
    /\ parsed = NoParse
    /\ translated = NoTranslation
    /\ registry = NoRegistry
    /\ mapper = NoMapper
    /\ classified = NoClassification
    /\ revalidated = NoRevalidation
    /\ runtimeTypes = NoResolution
    /\ bound = NoBound
    /\ builds = NoBuilds

\* return nil, err
Fail(e) ==
    /\ result' = "error"
    /\ err' = e
    /\ pc' = "done"

----------------------------------------------------------------------------
(* builder.go: Builder.NewTransferGraph                                    *)

\* a build that never finds an id taken
DuplicateIDNever(ns, id) == FALSE

\* transformations[id] != nil
DuplicateID(ns, id) == \E i \in DOMAIN ns : ns[i].id = id

\* one iteration of the loop over tgd.Transformations
BuildTransformation ==
    /\ impl = "dag" /\ pc = "build" /\ Len(nodes) < Len(tgd)
    /\ LET t == tgd[Len(nodes) + 1] IN
       \E built \in BOOLEAN :
          IF ~built
          THEN Fail(Error("build", t.id)) /\ UNCHANGED nodes
          ELSE IF DuplicateID(nodes, t.id)
          THEN Fail(Error("duplicateID", t.id)) /\ UNCHANGED nodes
          ELSE nodes' = Append(nodes, t) /\ UNCHANGED <<pc, result, err>>
    /\ UNCHANGED <<impl, tgd, idleVars, graphVars, envVars, passVars>>

\* validateTransformationGraphDefinitionNamingConventions
ValidateNaming ==
    /\ impl = "dag" /\ pc = "build" /\ Len(nodes) = Len(tgd)
    /\ \E named \in BOOLEAN :
          IF ~named
          THEN Fail(Error("naming", "-"))
          ELSE pc' = "graph" /\ UNCHANGED <<result, err>>
    /\ UNCHANGED <<impl, tgd, idleVars, nodes, graphVars, envVars, passVars>>

\* buildDependencyGraph: the inspection environment and one vertex per
\* transformation
SeedVertices ==
    /\ impl = "dag" /\ pc = "graph"
    /\ \E created \in BOOLEAN :
          IF ~created
          THEN Fail(Error("environment", "-")) /\ UNCHANGED vertices
          ELSE /\ vertices' = NodeIds(nodes)
               /\ pc' = "deps"
               /\ UNCHANGED <<result, err>>
    /\ UNCHANGED <<impl, tgd, idleVars, nodes, edges, dependencies, discovered,
                   unknown, topologicalOrder, envVars, passVars>>

----------------------------------------------------------------------------
(* The dag package: a directed graph that refuses cycles                   *)

RECURSIVE Reachable(_, _)
\* the vertices reachable from the set S along the edges E
Reachable(E, S) ==
    LET N == S \cup {e[2] : e \in {f \in E : f[1] \in S}}
    IN  IF N = S THEN S ELSE Reachable(E, N)

\* a graph that takes an edge from a vertex to itself
AddEdgeSelfLoop(E, from, to) == from = to \/ from \notin Reachable(E, {to})

\* AddEdge(from, to) is refused when it is a self-loop or closes a cycle
AddEdge(E, from, to) == ~(from = to \/ from \in Reachable(E, {to}))

Range(s) == {s[i] : i \in DOMAIN s}

RECURSIVE TopologicalSortLast(_, _, _, _)
\* a sort that takes, among the vertices that are ready, the one declared last
TopologicalSortLast(V, E, ns, placed) ==
    LET ready == {v \in V \ Range(placed) :
                    \A e \in E : e[1] = v => e[2] \in Range(placed)}
    IN  IF ready = {} THEN placed
        ELSE LET v == CHOOSE x \in ready : \A y \in ready : Order(ns, x) >= Order(ns, y)
             IN  TopologicalSortLast(V, E, ns, Append(placed, v))

RECURSIVE TopologicalSort(_, _, _, _)
\* dependencies first; among the vertices that are ready the one declared
\* first.  The result is shorter than V when the edges hold a cycle.
TopologicalSort(V, E, ns, placed) ==
    LET ready == {v \in V \ Range(placed) :
                    \A e \in E : e[1] = v => e[2] \in Range(placed)}
    IN  IF ready = {} THEN placed
        ELSE LET v == CHOOSE x \in ready : \A y \in ready : Order(ns, x) <= Order(ns, y)
             IN  TopologicalSort(V, E, ns, Append(placed, v))

----------------------------------------------------------------------------
(* builder.go: buildDependencyGraph and extractDependencies                *)

\* an inspection that lets every identifier and every function pass
extractDependenciesUnchecked(refs, resourceNames, pseudo, unknownFunctions) ==
    [err |-> "none", names |-> {}, deps |-> refs \ {pseudo},
     isStatic |-> refs \ {pseudo} = {}]

\* extractDependencies: refs are the identifiers the inspector finds in an
\* expression, resourceNames the declared ids plus the pseudo-vertex,
\* unknownFunctions the functions it does not know
extractDependencies(refs, resourceNames, pseudo, unknownFunctions) ==
    IF refs \ resourceNames # {}
    THEN [err |-> "unknownResources", names |-> refs \ resourceNames,
          deps |-> {}, isStatic |-> FALSE]
    ELSE IF unknownFunctions # {}
    THEN [err |-> "unknownFunctions", names |-> unknownFunctions,
          deps |-> {}, isStatic |-> FALSE]
    ELSE [err |-> "none", names |-> {}, deps |-> refs \ {pseudo},
          isStatic |-> refs \ {pseudo} = {}]

\* the dependencies the expressions of a node yield, in the order they are
\* met; an id comes again when a second expression references it
ResourceDependencies(deps) ==
    {s \in UNION {[1..k -> deps] : k \in Cardinality(deps)..(Cardinality(deps) + 1)} :
        Range(s) = deps}

\* a transformation that never finds a dependency listed
HasDependencyNever(r, dep) == FALSE

\* Transformation.HasDependency
HasDependency(r, dep) == \E i \in DOMAIN r : r[i] = dep

\* Transformation.addDependency
addDependency(r, dep) == IF HasDependency(r, dep) THEN r ELSE Append(r, dep)

RECURSIVE addDependencies(_, _)
\* Transformation.addDependencies
addDependencies(r, deps) ==
    IF deps = <<>> THEN r
    ELSE addDependencies(addDependency(r, Head(deps)), Tail(deps))

\* the edge added from the dependency to the dependent
EdgesOfReversed(id, deps) == {<<d, id>> : d \in deps}

\* directedAcyclicGraph.AddEdge(transformation.meta.ID, dependency)
EdgesOf(id, deps) == {<<id, d>> : d \in deps}

\* the error of AddEdge not looked at
EdgeRefusedIgnored(E, id, deps) == FALSE

\* the error of the first AddEdge that the graph refuses
EdgeRefused(E, id, deps) == \E d \in deps : ~AddEdge(E, id, d)

\* the body of the loop over transformations, for the node n
ExtractNode(n) ==
    /\ impl = "dag" /\ pc = "deps"
    /\ n \in vertices \ discovered
    /\ \E unknownFunctions \in SUBSET Functions, usesPseudo \in BOOLEAN :
         LET refs  == Inspected(NodeOf(nodes, n).refs, PseudoVertex(impl), usesPseudo)
             names == NodeIds(nodes) \cup {"schema"}
             x     == extractDependencies(refs, names, "schema", unknownFunctions)
         IN  /\ unknown' = [resources |-> unknown.resources \cup (refs \ names),
                            functions |-> unknown.functions \cup unknownFunctions]
             /\ IF x.err # "none"
                THEN /\ Fail(ErrorNaming(x.err, n, x.names))
                     /\ UNCHANGED <<edges, dependencies, discovered>>
                ELSE \E offered \in ResourceDependencies(x.deps) :
                     /\ dependencies' = [dependencies EXCEPT
                                           ![n] = addDependencies(dependencies[n], offered)]
                     /\ IF EdgeRefused(edges, n, x.deps)
                        THEN /\ \E added \in SUBSET {d \in x.deps : AddEdge(edges, n, d)} :
                                   edges' = edges \cup EdgesOf(n, added)
                             /\ Fail(Error("cycle", n))
                             /\ UNCHANGED discovered
                        ELSE /\ edges' = edges \cup EdgesOf(n, {d \in x.deps : AddEdge(edges, n, d)})
                             /\ discovered' = discovered \cup {n}
                             /\ UNCHANGED <<pc, result, err>>
    /\ UNCHANGED <<impl, tgd, idleVars, nodes, vertices, topologicalOrder, envVars, passVars>>

\* dag.TopologicalSort() and its error
SortGraph ==
    /\ impl = "dag" /\ pc = "deps" /\ discovered = vertices
    /\ LET order == TopologicalSort(vertices, edges, nodes, <<>>) IN
       IF Len(order) # Cardinality(vertices)
       THEN Fail(Error("cycle", "-")) /\ UNCHANGED topologicalOrder
       ELSE /\ topologicalOrder' = order
            /\ pc' = "validate"
            /\ UNCHANGED <<result, err>>
    /\ UNCHANGED <<impl, tgd, idleVars, nodes, vertices, edges, dependencies, discovered,
                   unknown, envVars, passVars>>

\* the typed environment and validateNode for every transformation, then
\* the returned Graph
ValidateNodes ==
    /\ impl = "dag" /\ pc = "validate"
    /\ \E outcome \in {"ok", "environment", "typeMismatch"} :
          IF outcome = "ok"
          THEN result' = "graph" /\ pc' = "done" /\ UNCHANGED err
          ELSE \E n \in vertices \cup {"-"} :
                  /\ (outcome = "environment") = (n = "-")
                  /\ Fail(Error(outcome, n))
    /\ UNCHANGED <<impl, tgd, idleVars, nodes, graphVars, envVars, passVars>>

NextDag == BuildTransformation \/ ValidateNaming \/ SeedVertices \/ (\E n \in Ids : ExtractNode(n))
           \/ SortGraph \/ ValidateNodes

----------------------------------------------------------------------------
(* The two-pass builder: Builder.NewTransferGraph up to the processors     *)

\* getTransformationNodes: one node per transformation, in declaration
\* order; a repeated id is refused before any graph construction
getTransformationNodes ==
    /\ impl = "processor" /\ pc = "build"
    /\ \E built \in BOOLEAN :
          IF ~built
          THEN Fail(Error("build", "-")) /\ UNCHANGED nodes
          ELSE IF \E i \in DOMAIN tgd : DuplicateID(SubSeq(tgd, 1, i - 1), tgd[i].id)
          THEN /\ \E i \in DOMAIN tgd :
                     /\ DuplicateID(SubSeq(tgd, 1, i - 1), tgd[i].id)
                     /\ \A j \in 1..(i - 1) : ~DuplicateID(SubSeq(tgd, 1, j - 1), tgd[j].id)
                     /\ Fail(Error("duplicateID", tgd[i].id))
               /\ UNCHANGED nodes
          ELSE nodes' = tgd /\ pc' = "vertices" /\ UNCHANGED <<result, err>>
    /\ UNCHANGED <<impl, tgd, idleVars, graphVars, envVars, passVars>>

\* graph.AddVertex refuses an id that is already a vertex
AddVertex(V, id) == id \notin V

\* one iteration of the loop over nodes
SeedVertex ==
    /\ impl = "processor" /\ pc = "vertices" /\ Cardinality(vertices) < Len(nodes)
    /\ LET id == nodes[Cardinality(vertices) + 1].id IN
       IF AddVertex(vertices, id)
       THEN vertices' = vertices \cup {id} /\ UNCHANGED <<pc, result, err>>
       ELSE Fail(Error("duplicateID", id)) /\ UNCHANGED vertices
    /\ UNCHANGED <<impl, tgd, idleVars, nodes, edges, dependencies, discovered,
                   unknown, topologicalOrder, envVars, passVars>>

Binding(name, type) == [name |-> name, type |-> type]
TypeName(id) == <<"__type_", id>>

\* NewEnvBuilder and the first CurrentEnv
NewEnvBuilder ==
    /\ impl = "processor" /\ pc = "vertices" /\ Cardinality(vertices) = Len(nodes)
    /\ \E inferred \in BOOLEAN :
          IF ~inferred
          THEN Fail(Error("environment", "-")) /\ UNCHANGED envVars
          ELSE /\ declTypes' = <<TypeName("environment")>>
               /\ envOptions' = <<Binding("environment", TypeName("environment"))>>
               /\ pc' = "deps"
               /\ UNCHANGED <<result, err>>
    /\ UNCHANGED <<impl, tgd, idleVars, nodes, graphVars, passVars>>

\* discoverDependencies, for the node n
DiscoverDependencies(n) ==
    /\ impl = "processor" /\ pc = "deps"
    /\ n \in vertices \ discovered
    /\ \E unknownFunctions \in SUBSET Functions, usesPseudo \in BOOLEAN :
         LET refs  == Inspected(NodeOf(nodes, n).refs, PseudoVertex(impl), usesPseudo)
             names == vertices \cup {"environment"}
             x     == extractDependencies(refs, names, "environment", unknownFunctions)
         IN  /\ unknown' = [resources |-> unknown.resources \cup (refs \ names),
                            functions |-> unknown.functions \cup unknownFunctions]
             /\ IF x.err # "none"
                THEN /\ Fail(ErrorNaming(x.err, n, x.names))
                     /\ UNCHANGED <<edges, dependencies, discovered>>
                ELSE \E offered \in ResourceDependencies(x.deps) :
                     /\ dependencies' = [dependencies EXCEPT
                                           ![n] = addDependencies(dependencies[n], offered)]
                     /\ IF \E d \in x.deps : ~AddEdge(edges, n, d)
                        THEN /\ \E added \in SUBSET {d \in x.deps : AddEdge(edges, n, d)} :
                                   edges' = edges \cup {<<n, d>> : d \in added}
                             /\ Fail(Error("cycle", n))
                             /\ UNCHANGED discovered
                        ELSE /\ edges' = edges \cup {<<n, d>> : d \in x.deps}
                             /\ discovered' = discovered \cup {n}
                             /\ UNCHANGED <<pc, result, err>>
    /\ UNCHANGED <<impl, tgd, idleVars, nodes, vertices, topologicalOrder, envVars, passVars>>

\* ToSyncedGraph and the static analysis processor
NewStaticProcessor ==
    /\ impl = "processor" /\ pc = "deps" /\ discovered = vertices
    /\ pc' = "static"
    /\ UNCHANGED <<impl, tgd, idleVars, nodes, graphVars, envVars, passVars, result, err>>

----------------------------------------------------------------------------
(* The graph processor, the same for both passes                           *)

Pass == IF pc = "static" THEN 1 ELSE IF pc = "runtime" THEN 2 ELSE 0

\* the dependency set of a node: the targets of its edges
Deps(n) == {p \in vertices : <<n, p>> \in edges}

Visiting(p) == {n \in vertices : state[p][n] = "Visiting"}

\* a processor that does not wait for dependencies
ReadyAlways(p, n) == TRUE

\* every dependency of n is Done in pass p
Ready(p, n) == \A d \in Deps(n) : state[p][d] = "Done"

\* a processor that keeps scheduling after a failure
HaltedNever(p) == FALSE

\* the first failure halts the processor
Halted(p) == procErr[p] # NoErr

\* a pool that always has a free worker
PoolFullNever(p) == FALSE

\* GraphProcessorOptions.Concurrency: the visits in flight fill the pool
PoolFull(p) == Cardinality(Visiting(p)) >= Concurrency

\* Process(context.TODO()): the context of both passes is never cancelled
ProcessContextDone == FALSE

\* a worker of the pool takes the node n
StartVisit(n) ==
    /\ Pass \in Passes
    /\ n \in vertices
    /\ state[Pass][n] = "Pending"
    /\ Ready(Pass, n)
    /\ ~Halted(Pass)
    /\ ~ProcessContextDone
    /\ ~PoolFull(Pass)
    /\ state' = [state EXCEPT ![Pass][n] = "Visiting"]
    /\ visit' = [visit EXCEPT ![n] = "begin"]
    /\ UNCHANGED <<impl, tgd, idleVars, pc, nodes, graphVars, envVars, snapshot, prototype,
                   analyzedTransformations, evaluated, program, procErr, failures,
                   context, result, err>>

\* the visitor returned an error for n
VisitFailed(p, n, kind) ==
    /\ state' = [state EXCEPT ![p][n] = "Failed"]
    /\ visit' = [visit EXCEPT ![n] = "idle"]
    /\ procErr' = [procErr EXCEPT ![p] = IF procErr[p] = NoErr THEN Error(kind, n) ELSE procErr[p]]
    /\ failures' = Append(failures, [pass |-> p, err |-> Error(kind, n)])

\* the visitor returned nil for n
VisitDone(p, n) ==
    /\ state' = [state EXCEPT ![p][n] = "Done"]
    /\ visit' = [visit EXCEPT ![n] = "idle"]
    /\ UNCHANGED <<procErr, failures>>

\* Process returns once no visit is in flight and the pass is halted or complete
Finished(p) ==
    /\ Visiting(p) = {}
    /\ Halted(p) \/ \A n \in vertices : state[p][n] = "Done"

\* the error Process returns, NoErr for nil
ProcessResult(p) == procErr[p]

----------------------------------------------------------------------------
(* EnvBuilder                                                              *)

\* envBuilder.declTypes = append(envBuilder.declTypes, declTypes...)
RegisterDeclTypes(types, t) == Append(types, t)

\* a registration that is lost
RegisterEnvOptionDropped(options, b) == options

\* a registration that overwrites the options registered before
RegisterEnvOptionReplacing(options, b) == <<b>>

\* envBuilder.envOptions = append(envBuilder.envOptions, envOptions...)
RegisterEnvOption(options, b) == Append(options, b)

\* CurrentEnv: the variable names a compilation against the environment can use
CurrentEnv(options) == {options[i].name : i \in DOMAIN options}

----------------------------------------------------------------------------
(* Pass 1: StaticPluginAnalysisProcessor.ProcessValue                      *)

\* env.Compile succeeds only when every referenced variable is declared
Compiles(refs, names) == refs \subseteq names

\* CurrentEnv and the compilation of every expression of every field descriptor
StaticCompile(n) ==
    /\ pc = "static" /\ n \in vertices
    /\ state[1][n] = "Visiting" /\ visit[n] = "begin"
    /\ \E outcome \in {"ok", "environment", "issues"}, usesPseudo \in BOOLEAN :
          IF outcome = "environment"
          THEN VisitFailed(1, n, "environment") /\ UNCHANGED snapshot
          ELSE /\ snapshot' = [snapshot EXCEPT ![n] = envOptions]
               /\ IF outcome = "issues"
                     \/ ~Compiles(Inspected(NodeOf(nodes, n).refs, PseudoVertex(impl), usesPseudo),
                                  CurrentEnv(envOptions))
                  THEN VisitFailed(1, n, "compile")
                  ELSE /\ visit' = [visit EXCEPT ![n] = "resolve"]
                       /\ UNCHANGED <<state, procErr, failures>>
    /\ UNCHANGED <<impl, tgd, idleVars, pc, nodes, graphVars, envVars, prototype,
                   analyzedTransformations, evaluated, program, context, result, err>>

\* the typed object, its runtime types and its declared type, registered
\* with the environment builder
StaticRegister(n) ==
    /\ pc = "static" /\ n \in vertices
    /\ state[1][n] = "Visiting" /\ visit[n] = "resolve"
    /\ \E object \in {"none", "download", "other"}, resolved \in BOOLEAN :
          IF object = "none"
          THEN /\ resolved
               /\ VisitFailed(1, n, "newObject")
               /\ UNCHANGED <<prototype, envVars>>
          ELSE /\ prototype' = [prototype EXCEPT ![n] = object]
               /\ IF ~resolved
                  THEN VisitFailed(1, n, "declType") /\ UNCHANGED envVars
                  ELSE /\ declTypes' = RegisterDeclTypes(declTypes, TypeName(n))
                       /\ envOptions' = RegisterEnvOption(envOptions, Binding(n, TypeName(n)))
                       /\ visit' = [visit EXCEPT ![n] = "revalidate"]
                       /\ UNCHANGED <<state, procErr, failures>>
    /\ UNCHANGED <<impl, tgd, idleVars, pc, nodes, graphVars, snapshot,
                   analyzedTransformations, evaluated, program, context, result, err>>

\* the field descriptors parsed again against the spec schema of the declared
\* type and checked for assignability; the analyzed transformation is kept
StaticRevalidate(n) ==
    /\ pc = "static" /\ n \in vertices
    /\ state[1][n] = "Visiting" /\ visit[n] = "revalidate"
    /\ \E outcome \in {"ok", "noSpec", "parse", "notAssignable"} :
          IF outcome # "ok"
          THEN VisitFailed(1, n, outcome) /\ UNCHANGED analyzedTransformations
          ELSE /\ analyzedTransformations' =
                     [analyzedTransformations EXCEPT
                        ![n] = [present |-> TRUE, prototype |-> prototype[n],
                                AST |-> Compile(n, snapshot[n])]]
               /\ VisitDone(1, n)
    /\ UNCHANGED <<impl, tgd, idleVars, pc, nodes, graphVars, envVars, snapshot, prototype,
                   evaluated, program, context, result, err>>

\* the error of the static analysis pass not looked at
StaticPassFailedIgnored == FALSE

\* if err := staticAnalysisProcessor.Process(...); err != nil
StaticPassFailed == ProcessResult(1) # NoErr

\* Process of the static analysis pass returned
ReturnFromStatic ==
    /\ impl = "processor" /\ pc = "static" /\ Finished(1)
    /\ IF StaticPassFailed
       THEN Fail(ProcessResult(1))
       ELSE pc' = "runtime" /\ UNCHANGED <<result, err>>
    /\ UNCHANGED <<impl, tgd, idleVars, nodes, graphVars, envVars, passVars>>

----------------------------------------------------------------------------
(* Pass 2: RuntimeEvaluationProcessor.ProcessValue                         *)

\* an evaluation that is handed the output of every node that is Done
EvalContextOfDone(n) == {m \in vertices : state[2][m] = "Done"}

\* program.Eval(map[string]interface{}{}): the node ids whose outputs the
\* evaluation of the expressions of n is given
EvalContext(n) == {}

\* a runtime pass that compiles the expressions of n again
Recompiled(n) == Compile(n, envOptions)

\* expression.AST of the visited value
CheckedForm(n) == analyzedTransformations[n].AST

\* the visited value is the analyzed transformation NewTransferGraph put on
\* the vertex after pass 1; only a download transformation is evaluated, its
\* result is dropped, and every other kind returns nil
RuntimeProcessValue(n) ==
    /\ pc = "runtime" /\ n \in vertices
    /\ state[2][n] = "Visiting" /\ visit[n] = "begin"
    /\ \E outcome \in {"ok", "environment", "eval"} :
          IF outcome = "environment"
          THEN VisitFailed(2, n, "environment") /\ UNCHANGED <<evaluated, program, context>>
          ELSE IF analyzedTransformations[n].prototype = "download"
          THEN /\ context' = [context EXCEPT ![n] = EvalContext(n)]
               /\ program' = [program EXCEPT ![n] = CheckedForm(n)]
               /\ IF outcome = "eval"
                  THEN VisitFailed(2, n, "eval") /\ UNCHANGED evaluated
                  ELSE evaluated' = evaluated \cup {n} /\ VisitDone(2, n)
          ELSE /\ outcome = "ok"
               /\ VisitDone(2, n)
               /\ UNCHANGED <<evaluated, program, context>>
    /\ UNCHANGED <<impl, tgd, idleVars, pc, nodes, graphVars, envVars, snapshot, prototype,
                   analyzedTransformations, result, err>>

\* the error of the runtime evaluation pass not looked at
RuntimePassFailedIgnored == FALSE

\* if err := runtimeEvaluationProcessor.Process(...); err != nil
RuntimePassFailed == ProcessResult(2) # NoErr

\* Process of the runtime evaluation pass returned
ReturnFromRuntime ==
    /\ impl = "processor" /\ pc = "runtime" /\ Finished(2)
    /\ IF RuntimePassFailed
       THEN Fail(ProcessResult(2))
       ELSE result' = "graph" /\ pc' = "done" /\ UNCHANGED err
    /\ UNCHANGED <<impl, tgd, idleVars, nodes, graphVars, envVars, passVars>>

----------------------------------------------------------------------------
(* The caller of NewTransferGraph                                          *)

\* the caller raises its cancellation signal while the passes run;
\* NewTransferGraph takes no context and nothing of the build reads the signal
Cancel ==
    /\ impl = "processor" /\ pc \in {"static", "runtime"}
    /\ ~cancelled
    /\ cancelled' = TRUE
    /\ UNCHANGED <<impl, tgd, outputs, typecheck, parsed, translated, registry,
                   mapper, classified, revalidated, runtimeTypes, bound, builds, pc, nodes,
                   graphVars, envVars, passVars, result, err>>

----------------------------------------------------------------------------

NextProcessor ==
    \/ getTransformationNodes \/ SeedVertex \/ NewEnvBuilder
    \/ (\E n \in Ids : DiscoverDependencies(n)) \/ NewStaticProcessor
    \/ (\E n \in Ids : StartVisit(n))
    \/ (\E n \in Ids : StaticCompile(n))
    \/ (\E n \in Ids : StaticRegister(n))
    \/ (\E n \in Ids : StaticRevalidate(n))
    \/ ReturnFromStatic
    \/ (\E n \in Ids : RuntimeProcessValue(n))
    \/ ReturnFromRuntime
    \/ Cancel

Next == NextDag \/ NextProcessor

Spec == Init /\ [][Next]_vars

----------------------------------------------------------------------------
(* builder.go: validateExpressionType                                      *)

SimpleKinds == {"string", "int", "dyn"}
WrapperKinds == {"optional_type", "list"}

\* the output types of checked expressions and the expected types of fields
CelTypes ==
    {CelType(k, "none") : k \in SimpleKinds}
       \cup {CelType(w, p) : w \in WrapperKinds, p \in SimpleKinds}

Paths == {"spec.name", "spec.count"}

\* cel.Type.String(): the name, with the parameter in brackets
TypeString(t) == IF t.param = "none" THEN <<t.kind>> ELSE <<t.kind, "(", t.param, ")">>

\* cel.Type.IsAssignableType: the same kind and name, and the parameters
\* assignable one by one; dyn is a kind of its own, and a parameter here is
\* a simple type, assignable from that same type alone
IsAssignableType(t, fromType) ==
    /\ t.kind = fromType.kind
    /\ t.param = fromType.param

\* WouldMatchIfUnwrapped: the output is an optional whose value type the
\* expected type takes
WouldMatchIfUnwrapped(outputType, expectedType) ==
    /\ outputType.kind = "optional_type"
    /\ IsAssignableType(expectedType, CelType(outputType.param, "none"))

TypeMismatch(resourceID, path, outputType, expectedType, unwrap) ==
    [kind |-> "typeMismatch", node |-> resourceID, path |-> path,
     output |-> TypeString(outputType), expected |-> TypeString(expectedType),
     hint |-> unwrap]

\* a check without the special case of dyn
validateExpressionTypeStrict(outputType, expectedType, resourceID, path) ==
    IF IsAssignableType(expectedType, outputType) THEN NoTypeError
    ELSE TypeMismatch(resourceID, path, outputType, expectedType,
                      WouldMatchIfUnwrapped(outputType, expectedType))

validateExpressionType(outputType, expectedType, resourceID, path) ==
    IF IsAssignableType(expectedType, outputType) THEN NoTypeError
    ELSE IF TypeString(outputType) = <<"dyn">> THEN NoTypeError
    ELSE IF WouldMatchIfUnwrapped(outputType, expectedType)
    THEN TypeMismatch(resourceID, path, outputType, expectedType, TRUE)
    ELSE TypeMismatch(resourceID, path, outputType, expectedType, FALSE)

\* validateTemplateExpressions is about to check one expression of a node
InitTypeCheck ==
    /\ impl = "dag"
    /\ tgd = <<>>
    /\ InitBuilder
    /\ parsed = NoParse
    /\ translated = NoTranslation
    /\ registry = NoRegistry
    /\ mapper = NoMapper
    /\ classified = NoClassification
    /\ revalidated = NoRevalidation
    /\ runtimeTypes = NoResolution
    /\ bound = NoBound
    /\ builds = NoBuilds
    /\ typecheck \in [phase : {"call"}, node : Ids, path : Paths,
                       outputType : CelTypes, expectedType : CelTypes,
                       err : {NoTypeError}]

\* the call of validateExpressionType
ValidateExpressionType ==
    /\ typecheck.phase = "call"
    /\ typecheck' = [typecheck EXCEPT
                        !.phase = "return",
                        !.err = validateExpressionType(typecheck.outputType,
                                                       typecheck.expectedType,
                                                       typecheck.node, typecheck.path)]
    /\ UNCHANGED <<builderVars, parsed, translated, registry, mapper, classified,
                   revalidated, runtimeTypes, bound, builds>>

SpecTypeCheck == InitTypeCheck /\ [][ValidateExpressionType]_vars

----------------------------------------------------------------------------
(* The parser: parseString                                                 *)

\* a field value is a string over these characters, "a" for any other one
Chars == {"$", "{", "}", "a"}
FieldValues == UNION {[1..k -> Chars] : k \in 0..MaxLen}

\* the schema at the path: its type, "any" for additionalProperties: true
SchemaTypes == {"string", "integer", "boolean", "any"}

exprStart == <<"$", "{">>
exprEnd == <<"}">>

RECURSIVE closingBrace(_, _, _)
\* the position of the brace that closes an expression whose text starts at
\* i with depth open braces, 0 when it is never closed
closingBrace(field, i, depth) ==
    IF i > Len(field) THEN 0
    ELSE IF field[i] = "{" THEN closingBrace(field, i + 1, depth + 1)
    ELSE IF field[i] = "}"
    THEN IF depth = 1 THEN i ELSE closingBrace(field, i + 1, depth - 1)
    ELSE closingBrace(field, i + 1, depth)

RECURSIVE extractFrom(_, _)
\* the embedded expressions of the field from position i on
extractFrom(field, i) ==
    IF i + 1 > Len(field) THEN <<>>
    ELSE IF SubSeq(field, i, i + 1) # exprStart THEN extractFrom(field, i + 1)
    ELSE LET j == closingBrace(field, i + 2, 1) IN
         IF j = 0 THEN extractFrom(field, i + 1)
         ELSE <<SubSeq(field, i + 2, j - 1)>> \o extractFrom(field, j + 1)

\* extractExpressions: the texts between "${" and the matching "}"
extractExpressions(field) == extractFrom(field, 1)

\* isStandaloneExpression: the whole field is one embedded expression
isStandaloneExpression(field) ==
    LET expressions == extractExpressions(field) IN
    /\ Len(expressions) = 1
    /\ field = exprStart \o expressions[1] \o exprEnd

\* strings.TrimPrefix and strings.TrimSuffix
TrimPrefix(str, prefix) ==
    IF Len(str) >= Len(prefix) /\ SubSeq(str, 1, Len(prefix)) = prefix
    THEN SubSeq(str, Len(prefix) + 1, Len(str)) ELSE str
TrimSuffix(str, suffix) ==
    IF Len(str) >= Len(suffix) /\ SubSeq(str, Len(str) - Len(suffix) + 1, Len(str)) = suffix
    THEN SubSeq(str, 1, Len(str) - Len(suffix)) ELSE str

\* getExpectedTypes, for a schema with a type or with additionalProperties
getExpectedTypes(schema) == {schema}

\* getCelType: the cel type of the declared type of the schema, dyn when the
\* schema has none
getCelType(schema) ==
    CASE schema = "string"  -> StringType
      [] schema = "integer" -> IntType
      [] schema = "boolean" -> CelType("bool", "none")
      [] OTHER              -> DynType

FieldDescriptor(expressions, expectedType, path, standalone) ==
    [expressions |-> expressions, expectedType |-> expectedType, path |-> path,
     standalone |-> standalone]

\* a parser that gives a template the type of its schema
TemplateTypeOfSchema(schema) == getCelType(schema)

\* String templates always produce strings
TemplateType(schema) == StringType

\* a parser that takes a string at a field of any type
StringTakenAlways(expectedTypes) == TRUE

\* the expected types of the schema hold "string" or "any"
StringTaken(expectedTypes) == "string" \in expectedTypes \/ "any" \in expectedTypes

\* "expected %s type for path %s, got string": the joined expected types,
\* the path and the shape met
ExpectedTypeMessage(expectedTypes, path) ==
    <<"expected", expectedTypes, "type for path", path, "got", "string">>

parseString(field, schema, path) ==
    IF isStandaloneExpression(field)
    THEN [descriptors |-> <<FieldDescriptor(<<TrimSuffix(TrimPrefix(field, exprStart), exprEnd)>>,
                                            getCelType(schema), path, TRUE)>>,
          err |-> "none", message |-> <<>>]
    ELSE IF ~StringTaken(getExpectedTypes(schema))
    THEN [descriptors |-> <<>>, err |-> "expectedType",
          message |-> ExpectedTypeMessage(getExpectedTypes(schema), path)]
    ELSE IF Len(extractExpressions(field)) > 0
    THEN [descriptors |-> <<FieldDescriptor(extractExpressions(field), TemplateType(schema),
                                            path, FALSE)>>,
          err |-> "none", message |-> <<>>]
    ELSE [descriptors |-> <<>>, err |-> "none", message |-> <<>>]

\* parseResource has met a string at a path
InitParser ==
    /\ impl = "dag"
    /\ tgd = <<>>
    /\ InitBuilder
    /\ typecheck = NoCheck
    /\ translated = NoTranslation
    /\ registry = NoRegistry
    /\ mapper = NoMapper
    /\ classified = NoClassification
    /\ revalidated = NoRevalidation
    /\ runtimeTypes = NoResolution
    /\ bound = NoBound
    /\ builds = NoBuilds
    /\ parsed \in [phase : {"call"}, field : FieldValues, schema : SchemaTypes,
                    path : {"spec.name"}, descriptors : {<<>>}, err : {"none"},
                    message : {<<>>}]

\* the call of parseString
ParseString ==
    /\ parsed.phase = "call"
    /\ LET r == parseString(parsed.field, parsed.schema, parsed.path) IN
       parsed' = [parsed EXCEPT !.phase = "return", !.descriptors = r.descriptors,
                                !.err = r.err, !.message = r.message]
    /\ UNCHANGED <<builderVars, typecheck, translated, registry, mapper, classified,
                   revalidated, runtimeTypes, bound, builds>>

SpecParser == InitParser /\ [][ParseString]_vars

----------------------------------------------------------------------------
(* cel/jsonschema: SchemaDeclType and the accessors of Schema              *)

\* a uint64 is held as four 16-bit limbs, the least significant first
Limb == 2^16

\* uint64(x) of a number below 2^31
Uint64(x) == <<x % Limb, (x \div Limb) % Limb, 0, 0>>

RECURSIVE Scale(_, _, _)
\* the limbs of x * k + c for a small factor k: exact, one limb longer than x
Scale(x, k, c) ==
    IF x = <<>> THEN <<c>>
    ELSE <<(Head(x) * k + c) % Limb>> \o Scale(Tail(x), k, (Head(x) * k + c) \div Limb)

\* x * k in uint64: the low 64 bits of the product
Mul(x, k) == SubSeq(Scale(x, k, 0), 1, 4)

MaxRequestSizeBytes == 3 * 1024 * 1024

\* the largest minimum serialized size of an item type
MaxMinSize == 3

\* an enum literal: a string of some length, or a value that is no string
Literal(isString, n) == [string |-> isString, len |-> n]

\* the schemas translated: the branch of "object" and the formats duration,
\* date and date-time take their sizes from a file that is not at hand
SchemaKinds == {"array", "string", "boolean", "integer", "number", "null"}
Formats == {"", "byte"}
MaxLengths == {Uint64(0), Uint64(1), Uint64(255), Uint64(MaxRequestSizeBytes),
               <<Limb - 1, Limb - 1, Limb - 1, Limb \div 4 - 1>>,
               <<0, 0, 0, Limb \div 4>>,
               <<Limb - 1, Limb - 1, Limb - 1, Limb - 1>>}
MaxItemsValues == {Uint64(0), Uint64(1), Uint64(7)}
Enums == {<<>>, <<Literal(TRUE, 1)>>, <<Literal(TRUE, 1), Literal(TRUE, 3)>>,
          <<Literal(TRUE, 3), Literal(TRUE, 1)>>, <<Literal(FALSE, 5), Literal(TRUE, 2)>>}
\* the items of an array: none, a schema that is not exposed, or a schema
\* whose translated type has the minimum serialized size m
ItemTypes == {NoItems, [nil |-> FALSE, exposed |-> FALSE, minSerializedSize |-> 0]}
             \cup {[nil |-> FALSE, exposed |-> TRUE, minSerializedSize |-> m] :
                      m \in 0..MaxMinSize}
Pointers(values) == {NilPtr} \cup {Ptr(v) : v \in values}
Schemas == [type : SchemaKinds, format : Formats, maxLength : Pointers(MaxLengths),
            enum : Enums, maxItems : Pointers(MaxItemsValues), items : ItemTypes]

\* Schema.MaxItems: new(uint64) when the schema has no maxItems
MaxItems(s) == IF s.maxItems.nil THEN Ptr(Uint64(0)) ELSE s.maxItems

\* Schema.MaxLength: new(uint64) when the schema has no maxLength
MaxLength(s) == IF s.maxLength.nil THEN Ptr(Uint64(0)) ELSE s.maxLength

\* Schema.Enum, Schema.Items
Enum(s) == s.enum
Items(s) == s.items

\* the default case of the switch over the format
estimateMaxStringLengthPerRequest(s) == Uint64(MaxRequestSizeBytes - 2)

RECURSIVE LongestLiteral(_, _)
\* the loop of estimateMaxStringEnumLength
LongestLiteral(enum, maxLength) ==
    IF enum = <<>> THEN maxLength
    ELSE IF Head(enum).string /\ Head(enum).len > maxLength
    THEN LongestLiteral(Tail(enum), Head(enum).len)
    ELSE LongestLiteral(Tail(enum), maxLength)

estimateMaxStringEnumLength(s) == Uint64(LongestLiteral(Enum(s), 0))

estimateMaxArrayItemsFromMinSize(minSize) ==
    Uint64((MaxRequestSizeBytes - 2) \div (minSize + 1))

\* *s.MaxLength() * 4
estimateMaxElementsFromMaxLength(s) == Mul(MaxLength(s).value, 4)

DeclType(name, maxElements) == [name |-> name, maxElements |-> maxElements]

SchemaDeclType(s) ==
    CASE s.type = "array" ->
           IF ~Items(s).nil
           THEN IF ~Items(s).exposed THEN NilDeclType
                ELSE DeclType("list",
                              IF ~MaxItems(s).nil THEN MaxItems(s).value
                              ELSE estimateMaxArrayItemsFromMinSize(
                                       Items(s).minSerializedSize))
           ELSE NilDeclType
      [] s.type = "string" ->
           IF s.format = "byte"
           THEN DeclType("bytes",
                         IF ~MaxLength(s).nil THEN MaxLength(s).value
                         ELSE estimateMaxStringLengthPerRequest(s))
           ELSE DeclType("string",
                         IF ~MaxLength(s).nil THEN estimateMaxElementsFromMaxLength(s)
                         ELSE IF Len(Enum(s)) > 0 THEN estimateMaxStringEnumLength(s)
                         ELSE estimateMaxStringLengthPerRequest(s))
      [] s.type = "boolean" -> DeclType("bool", Uint64(0))
      [] s.type = "number" -> DeclType("double", Uint64(0))
      [] s.type = "integer" -> DeclType("int", Uint64(0))
      [] OTHER -> NilDeclType

\* a schema is about to be translated
InitSchema ==
    /\ impl = "dag"
    /\ tgd = <<>>
    /\ InitBuilder
    /\ typecheck = NoCheck
    /\ parsed = NoParse
    /\ registry = NoRegistry
    /\ mapper = NoMapper
    /\ classified = NoClassification
    /\ revalidated = NoRevalidation
    /\ runtimeTypes = NoResolution
    /\ bound = NoBound
    /\ builds = NoBuilds
    /\ translated \in [phase : {"call"}, schema : Schemas, declType : {NilDeclType}]

\* the call of SchemaDeclType
TranslateSchema ==
    /\ translated.phase = "call"
    /\ translated' = [translated EXCEPT !.phase = "return",
                                        !.declType = SchemaDeclType(translated.schema)]
    /\ UNCHANGED <<builderVars, typecheck, parsed, registry, mapper, classified,
                   revalidated, runtimeTypes, bound, builds>>

SpecSchema == InitSchema /\ [][TranslateSchema]_vars

----------------------------------------------------------------------------
(* plugin/manager: the registries of external plugins                      *)
(*   "componentversion"  ComponentVersionRepositoryRegistry                *)
(*   "input"             input.RepositoryRegistry                          *)
(*   "digest"            digestprocessor.RepositoryRegistry                *)
(* Every method holds the mutex of the registry from its first line to its *)
(* return.                                                                 *)

\* the calls made to one registry, and the capabilities one plugin declares
MaxCalls == 3
MaxCaps == 3

RegistryKinds == {"componentversion", "input", "digest"}
Capabilities == {"read", "write"}
CapabilityLists ==
    UNION {[1..k -> [capability : Capabilities, type : Types]] : k \in 0..MaxCaps}

\* a registry that never finds a type taken
RegisteredNever(reg, t) == FALSE

\* _, ok := r.registry[typ]
Registered(reg, t) == reg[t] # "-"

RECURSIVE Collect(_, _, _)
\* the loop of AddPlugin over the capabilities: reads, and writes, which is
\* set to the reads so far with the type of the write capability appended
Collect(caps, reads, writes) ==
    IF caps = <<>> THEN [reads |-> reads, writes |-> writes]
    ELSE LET c == Head(caps)
             r == IF c.capability = "read" THEN Append(reads, c.type) ELSE reads
             w == IF c.capability = "write" THEN Append(r, c.type) ELSE writes
         IN  Collect(Tail(caps), r, w)

\* the reads that slices.Contains finds among the writes
Candidates(caps) ==
    LET x == Collect(caps, <<>>, <<>>)
    IN  {t \in Range(x.reads) : t \in Range(x.writes)}

\* the loop over the candidates, in the order of a map: it stores the plugin
\* for the candidates it meets before the first one that is taken
Store(p, candidates, ret) ==
    \E stored \in SUBSET {t \in candidates : ~Registered(registry.registry, t)} :
       /\ (ret = "nil") => stored = candidates
       /\ registry' = [registry EXCEPT
             !.registry = [t \in Types |-> IF t \in stored THEN p ELSE @[t]],
             !.first = [t \in Types |-> IF t \in stored /\ @[t] = "-" THEN p ELSE @[t]],
             !.added = [n |-> registry.calls + 1, plugin |-> p,
                        candidates |-> candidates,
                        taken |-> {t \in candidates : registry.registry[t] # "-"},
                        ret |-> ret],
             !.calls = @ + 1]

\* ComponentVersionRepositoryRegistry.AddPlugin
AddPluginCapabilities(p, caps) ==
    /\ registry.kind = "componentversion"
    /\ registry.mu = "free" /\ registry.calls < MaxCalls
    /\ LET candidates == Candidates(caps) IN
       IF \E t \in candidates : Registered(registry.registry, t)
       THEN Store(p, candidates, "error")
       ELSE Store(p, candidates, "nil")
    /\ UNCHANGED <<builderVars, typecheck, parsed, translated, mapper, classified,
                   revalidated, runtimeTypes, bound, builds>>

\* RepositoryRegistry.AddPlugin of the input and of the digest processor
\* registry
AddPlugin(p, typ) ==
    /\ registry.kind \in {"input", "digest"}
    /\ registry.mu = "free" /\ registry.calls < MaxCalls
    /\ IF Registered(registry.registry, typ)
       THEN Store(p, {typ}, "error")
       ELSE Store(p, {typ}, "nil")
    /\ UNCHANGED <<builderVars, typecheck, parsed, translated, mapper, classified,
                   revalidated, runtimeTypes, bound, builds>>

\* what the scheme of the registry makes of the specification handed to
\* GetPlugin, before the registry of external plugins is looked at
Resolutions(kind) ==
    IF kind = "componentversion" THEN {"external"}
    ELSE {"defaultTypeFails", "internal", "noInternal", "emptyType", "external"}

\* the deferred Unlock and the return
Return(c, value) ==
    [registry EXCEPT !.mu = "free", !.caller[c].pc = "idle", !.caller[c].ret = value]

\* r.mu.Lock() of GetPlugin
GetPluginLock(c, typ) ==
    /\ registry.kind # "none"
    /\ registry.caller[c].pc = "idle"
    /\ registry.mu = "free" /\ registry.calls < MaxCalls
    /\ registry' = [registry EXCEPT
          !.mu = c,
          !.caller[c] = [n |-> registry.calls + 1, pc |-> "locked", op |-> "GetPlugin",
                         typ |-> typ, arg |-> "-", held |-> "-", ret |-> "-"],
          !.calls = @ + 1]
    /\ UNCHANGED <<builderVars, typecheck, parsed, translated, mapper, classified,
                   revalidated, runtimeTypes, bound, builds>>

\* existingPlugin, ok := r.constructedPlugins[plugin.ID]
ConstructedNever(plugins, p) == FALSE
Constructed(plugins, p) == p \in plugins

\* GetPlugin up to cmd.Start(): internal plugins, the registry, the
\* constructed plugins
GetPluginLookup(c) ==
    /\ registry.caller[c].pc = "locked"
    /\ LET typ == registry.caller[c].typ
           p   == registry.registry[typ]
       IN  \E resolution \in Resolutions(registry.kind) :
              registry' =
                 IF resolution = "internal" THEN Return(c, "internal")
                 ELSE IF resolution # "external" THEN Return(c, "error")
                 ELSE IF ~Registered(registry.registry, typ) THEN Return(c, "error")
                 ELSE IF Constructed(registry.constructedPlugins, p)
                 THEN [Return(c, "plugin") EXCEPT
                         !.caller[c].arg = p,
                         !.caller[c].held = "constructed"]
                 ELSE [registry EXCEPT
                         !.caller[c].pc = "start",
                         !.caller[c].arg = p,
                         !.caller[c].held = IF registry.process[p] THEN "running"
                                            ELSE "none"]
    /\ UNCHANGED <<builderVars, typecheck, parsed, translated, mapper, classified,
                   revalidated, runtimeTypes, bound, builds>>

\* plugin.cmd.Start(): exec.Cmd refuses a command whose process exists
\* ("exec: already started"); a first start may fail as well
Start(c) ==
    /\ registry.caller[c].pc = "start"
    /\ LET p == registry.caller[c].arg IN
       IF registry.process[p]
       THEN registry' = Return(c, "error")
       ELSE \E started \in BOOLEAN :
               registry' =
                  IF started
                  THEN [registry EXCEPT !.process[p] = TRUE, !.spawned[p] = @ + 1,
                                        !.caller[c].pc = "wait"]
                  ELSE Return(c, "error")
    /\ UNCHANGED <<builderVars, typecheck, parsed, translated, mapper, classified,
                   revalidated, runtimeTypes, bound, builds>>

\* waitForPlugin and, when the plugin answers, the entry of
\* constructedPlugins
WaitForPlugin(c) ==
    /\ registry.caller[c].pc = "wait"
    /\ LET p == registry.caller[c].arg IN
       \E answered \in BOOLEAN :
          registry' =
             IF answered
             THEN [Return(c, "plugin") EXCEPT !.constructedPlugins = @ \cup {p}]
             ELSE Return(c, "error")
    /\ UNCHANGED <<builderVars, typecheck, parsed, translated, mapper, classified,
                   revalidated, runtimeTypes, bound, builds>>

\* NewTransferRegistry, NewInputRepositoryRegistry, NewDigestProcessorRegistry
InitRegistry ==
    /\ impl = "dag"
    /\ tgd = <<>>
    /\ InitBuilder
    /\ typecheck = NoCheck
    /\ parsed = NoParse
    /\ translated = NoTranslation
    /\ mapper = NoMapper
    /\ classified = NoClassification
    /\ revalidated = NoRevalidation
    /\ runtimeTypes = NoResolution
    /\ bound = NoBound
    /\ builds = NoBuilds
    /\ \E kind \in RegistryKinds : registry = [NoRegistry EXCEPT !.kind = kind]

NextRegistry ==
    \/ (\E p \in Plugins, caps \in CapabilityLists : AddPluginCapabilities(p, caps))
    \/ (\E p \in Plugins, typ \in Types : AddPlugin(p, typ))
    \/ (\E c \in Callers, typ \in Types : GetPluginLock(c, typ))
    \/ (\E c \in Callers : GetPluginLookup(c))
    \/ (\E c \in Callers : Start(c))
    \/ (\E c \in Callers : WaitForPlugin(c))

SpecRegistry == InitRegistry /\ [][NextRegistry]_vars

----------------------------------------------------------------------------
(* runtime: DefaultSchemaMapper                                            *)

\* the schemas handed to RegisterSchemaForType, and the one
\* GenerateJSONSchemaWithScheme makes of a prototype
SchemaIds == {"s1", "s2"}
Generated == "generated"

\* the type of a prototype: a type, or the empty Type{}
PrototypeTypes == Types \cup {""}

\* a mapper that never finds a type registered
ExistsNever(typeToSchema, typ) == FALSE

\* _, exists := d.typeToSchema[typ]
Exists(typeToSchema, typ) == typ \in DOMAIN typeToSchema /\ typeToSchema[typ] # "-"

\* d.typeToSchema[typ] = schema
Assign(typ, schema) ==
    [mapper EXCEPT !.typeToSchema[typ] = schema,
                   !.first[typ] = IF @ = "-" THEN schema ELSE @]

\* a call of the goroutine c, numbered
Call(c, op, typ, arg, held) ==
    [n |-> mapper.calls + 1, pc |-> "idle", op |-> op, typ |-> typ, arg |-> arg,
     held |-> held, ret |-> "-"]

\* history: whether the type has a schema when the call begins
Held(typ) == IF typ \in Types /\ mapper.typeToSchema[typ] \in SchemaIds \cup {Generated}
             THEN "registered" ELSE "free"

\* RegisterSchemaForType, under the write lock from its first line on
RegisterSchemaForType(c, typ, schema) ==
    /\ mapper.made /\ mapper.caller[c].pc = "idle"
    /\ mapper.mu = "free" /\ mapper.calls < MaxCalls
    /\ LET call == Call(c, "RegisterSchemaForType", typ, schema, Held(typ)) IN
       mapper' =
          IF Exists(mapper.typeToSchema, typ)
          THEN [mapper EXCEPT !.caller[c] = [call EXCEPT !.ret = "error"],
                              !.calls = @ + 1]
          ELSE [Assign(typ, schema) EXCEPT !.caller[c] = [call EXCEPT !.ret = "nil"],
                                           !.calls = @ + 1]
    /\ UNCHANGED <<builderVars, typecheck, parsed, translated, registry, classified,
                   revalidated, runtimeTypes, bound, builds>>

\* RegisterSchemaForPrototype up to d.mu.Lock(): the type of the prototype,
\* the look at typeToSchema and the generation of the schema, without lock
RegisterSchemaForPrototype(c, typ) ==
    /\ mapper.made /\ mapper.caller[c].pc = "idle"
    /\ mapper.calls < MaxCalls
    /\ LET call == Call(c, "RegisterSchemaForPrototype", typ, Generated, Held(typ)) IN
       \E generated \in BOOLEAN :
          mapper' = [mapper EXCEPT
             !.caller[c] =
                IF typ = "" THEN [call EXCEPT !.ret = "error"]
                ELSE IF Exists(mapper.typeToSchema, typ) THEN [call EXCEPT !.ret = "error"]
                ELSE IF ~generated THEN [call EXCEPT !.ret = "error"]
                ELSE [call EXCEPT !.pc = "store"],
             !.calls = @ + 1]
    /\ UNCHANGED <<builderVars, typecheck, parsed, translated, registry, classified,
                   revalidated, runtimeTypes, bound, builds>>

\* d.mu.Lock(); d.typeToSchema[typ] = schema; return nil
StoreSchema(c) ==
    /\ mapper.caller[c].pc = "store"
    /\ mapper.mu = "free"
    /\ mapper' = [Assign(mapper.caller[c].typ, mapper.caller[c].arg) EXCEPT
                    !.caller[c].pc = "idle", !.caller[c].ret = "nil"]
    /\ UNCHANGED <<builderVars, typecheck, parsed, translated, registry, classified,
                   revalidated, runtimeTypes, bound, builds>>

\* SchemaForType, under the read lock; SchemaForPrototype calls it with the
\* type of its prototype and fails before that when the type is empty
SchemaForType(c, typ) ==
    /\ mapper.made /\ mapper.caller[c].pc = "idle"
    /\ mapper.mu = "free" /\ mapper.calls < MaxCalls
    /\ LET call == Call(c, "SchemaForType", typ, "-", Held(typ)) IN
       mapper' = [mapper EXCEPT
          !.caller[c] =
             IF typ = "" THEN [call EXCEPT !.ret = "error"]
             ELSE IF ~Exists(mapper.typeToSchema, typ) THEN [call EXCEPT !.ret = "error"]
             ELSE [call EXCEPT !.arg = mapper.typeToSchema[typ], !.ret = "nil"],
          !.calls = @ + 1]
    /\ UNCHANGED <<builderVars, typecheck, parsed, translated, registry, classified,
                   revalidated, runtimeTypes, bound, builds>>

\* NewDefaultSchemaMapper
InitMapper ==
    /\ impl = "dag"
    /\ tgd = <<>>
    /\ InitBuilder
    /\ typecheck = NoCheck
    /\ parsed = NoParse
    /\ translated = NoTranslation
    /\ registry = NoRegistry
    /\ classified = NoClassification
    /\ revalidated = NoRevalidation
    /\ runtimeTypes = NoResolution
    /\ bound = NoBound
    /\ builds = NoBuilds
    /\ mapper = [NoMapper EXCEPT !.made = TRUE]

NextMapper ==
    \/ (\E c \in Callers, typ \in Types, schema \in SchemaIds :
           RegisterSchemaForType(c, typ, schema))
    \/ (\E c \in Callers, typ \in PrototypeTypes : RegisterSchemaForPrototype(c, typ))
    \/ (\E c \in Callers : StoreSchema(c))
    \/ (\E c \in Callers, typ \in PrototypeTypes : SchemaForType(c, typ))

SpecMapper == InitMapper /\ [][NextMapper]_vars

----------------------------------------------------------------------------
(* builder.go: the loop of buildDependencyGraph over the expressions of    *)
(* one template variable                                                   *)

\* the expressions of one template variable
MaxExprs == 2

\* what an expression may mention: node ids, declared or not, and "schema"
Mentions == SUBSET (Ids \cup {"schema"})
ExpressionLists == UNION {[1..k -> Mentions] : k \in 0..MaxExprs}

\* a variable whose kind follows its last expression
KindOfLast(kind, isStatic) == IF isStatic THEN "static" ELSE "dynamic"

\* static until proven dynamic
KindAfter(kind, isStatic) ==
    IF ~isStatic /\ kind = "static" THEN "dynamic" ELSE kind

\* buildTGTransformation makes the variable static; the loop is about to
\* take its first expression
InitClassify ==
    /\ impl = "dag"
    /\ tgd = <<>>
    /\ InitBuilder
    /\ typecheck = NoCheck
    /\ parsed = NoParse
    /\ translated = NoTranslation
    /\ registry = NoRegistry
    /\ mapper = NoMapper
    /\ revalidated = NoRevalidation
    /\ runtimeTypes = NoResolution
    /\ bound = NoBound
    /\ builds = NoBuilds
    /\ \E names \in (SUBSET Ids) \ {{}}, expressions \in ExpressionLists :
          classified = [NoClassification EXCEPT !.phase = "loop", !.names = names,
                                                !.expressions = expressions]

\* the body of the loop for the next expression of the variable
ClassifyExpression ==
    /\ classified.phase = "loop"
    /\ classified.next <= Len(classified.expressions)
    /\ \E unknownFunctions \in SUBSET Functions, refused \in BOOLEAN :
         LET refs == classified.expressions[classified.next]
             x    == extractDependencies(refs, classified.names \cup {"schema"},
                                         "schema", unknownFunctions)
         IN  classified' =
                IF x.err # "none"
                THEN [classified EXCEPT !.phase = "failed", !.err = x.err]
                ELSE IF refused /\ x.deps # {}
                THEN [classified EXCEPT
                        !.phase = "failed", !.err = "cycle",
                        !.Kind = KindAfter(@, x.isStatic),
                        !.dependencies = @ \cup x.deps,
                        !.next = @ + 1]
                ELSE [classified EXCEPT
                        !.Kind = KindAfter(@, x.isStatic),
                        !.dependencies = @ \cup x.deps,
                        !.next = @ + 1]
    /\ UNCHANGED <<builderVars, typecheck, parsed, translated, registry, mapper,
                   revalidated, runtimeTypes, bound, builds>>

\* the loop has no expression left
ClassifyDone ==
    /\ classified.phase = "loop"
    /\ classified.next > Len(classified.expressions)
    /\ classified' = [classified EXCEPT !.phase = "done"]
    /\ UNCHANGED <<builderVars, typecheck, parsed, translated, registry, mapper,
                   revalidated, runtimeTypes, bound, builds>>

SpecClassify == InitClassify /\ [][ClassifyExpression \/ ClassifyDone]_vars

----------------------------------------------------------------------------
(* StaticPluginAnalysisProcessor.ProcessValue: the field descriptors of a  *)
(* node parsed again against the spec schema of its declared type          *)

\* the fields of a spec that hold expressions, at most
MaxFields == 2

\* the fields of a spec, named by their position in the schema
SpecFields == 1..MaxFields

\* the values a field holds: ${a}, ${aa}, a${a} and ${a}${aa}
SpecValues ==
    {<<"$", "{", "a", "}">>, <<"$", "{", "a", "a", "}">>, <<"a", "$", "{", "a", "}">>,
     <<"$", "{", "a", "}", "$", "{", "a", "a", "}">>}

\* the expressions of these values and the output types the environment
\* can give them
ExpressionStrings == {<<"a">>, <<"a", "a">>}
OutputTypes == {StringType, IntType, CelType("optional_type", "string")}

\* the spec of a node: the value of every field that holds an expression
SpecData == UNION {[F -> SpecValues] : F \in (SUBSET SpecFields) \ {{}}}

\* the orders in which a range over a Go map can enumerate the keys
Enumerations(keys) ==
    {order \in [1..Cardinality(keys) -> keys] :
        \A i, j \in DOMAIN order : order[i] = order[j] => i = j}

\* an expression without its checked form, and with it
NilAST == [of |-> <<>>, OutputType |-> CelType("nil", "none")]
Expression(string, ast) == [String |-> string, AST |-> ast]

\* env.Compile: the checked form of an expression under the output types
\* of the environment
CompileExpression(env, string) == [of |-> string, OutputType |-> env[string]]

\* the descriptors parseResource gives for the string at a path
parseField(field, schema, path) ==
    LET r == parseString(field, schema, path) IN
    [descriptors |->
        [k \in DOMAIN r.descriptors |->
            [r.descriptors[k] EXCEPT
                !.expressions = [j \in DOMAIN @ |-> Expression(@[j], NilAST)]]],
     err |-> r.err]

RECURSIVE parseObject(_, _, _, _)
\* parseObject: the descriptors of the fields in the order the range over
\* the map enumerates them, up to the first field that fails
parseObject(field, schema, order, k) ==
    IF k > Len(order) THEN [descriptors |-> <<>>, err |-> "none"]
    ELSE LET fieldExpressions == parseField(field[order[k]], schema[order[k]], order[k])
         IN  IF fieldExpressions.err # "none"
             THEN [descriptors |-> <<>>, err |-> fieldExpressions.err]
             ELSE LET rest == parseObject(field, schema, order, k + 1) IN
                  IF rest.err # "none" THEN rest
                  ELSE [descriptors |-> fieldExpressions.descriptors \o rest.descriptors,
                        err |-> "none"]

\* ParseResource of a spec under one enumeration of its fields
ParseResource(resource, schema, order) == parseObject(resource, schema, order, 1)

\* the loop that compiles every expression of every field descriptor
CompileDescriptors(env, fieldDescriptors) ==
    [i \in DOMAIN fieldDescriptors |->
        [fieldDescriptors[i] EXCEPT
            !.expressions =
                [j \in DOMAIN @ |-> Expression(@[j].String, CompileExpression(env, @[j].String))]]]

\* no error of the re-validation
NoRevalidationError == [kind |-> "none", output |-> <<>>, expected |-> <<>>, path |-> 0]

RECURSIVE revalidateFrom(_, _, _, _)
\* the loop over the expressions of the field descriptors from the j-th
\* expression of the i-th descriptor on
revalidateFrom(fieldDescriptors, validated, i, j) ==
    IF i > Len(fieldDescriptors)
    THEN [descriptors |-> validated, err |-> NoRevalidationError]
    ELSE IF j > Len(fieldDescriptors[i].expressions)
    THEN revalidateFrom(fieldDescriptors, validated, i + 1, 1)
    ELSE LET expression == fieldDescriptors[i].expressions[j] IN
         IF ~WouldMatchIfUnwrapped(expression.AST.OutputType, validated[i].expectedType)
         THEN [descriptors |-> validated,
               err |-> [kind |-> "notAssignable",
                        output |-> TypeString(expression.AST.OutputType),
                        expected |-> TypeString(validated[i].expectedType),
                        path |-> fieldDescriptors[i].path]]
         ELSE IF j > Len(validated[i].expressions)
         THEN [descriptors |-> validated,
               err |-> [NoRevalidationError EXCEPT !.kind = "indexOutOfRange"]]
         ELSE revalidateFrom(fieldDescriptors,
                             [validated EXCEPT ![i].expressions[j].AST = expression.AST],
                             i, j + 1)

\* the descriptors of a node are compiled and its declared type is known
InitRevalidate ==
    /\ impl = "dag"
    /\ tgd = <<>>
    /\ InitBuilder
    /\ typecheck = NoCheck
    /\ parsed = NoParse
    /\ translated = NoTranslation
    /\ registry = NoRegistry
    /\ mapper = NoMapper
    /\ classified = NoClassification
    /\ runtimeTypes = NoResolution
    /\ bound = NoBound
    /\ builds = NoBuilds
    /\ \E spec \in SpecData, env \in [ExpressionStrings -> OutputTypes] :
       \E order \in Enumerations(DOMAIN spec),
          specSchema \in [DOMAIN spec -> {"string", "integer"}] :
          revalidated =
             [phase |-> "compiled", spec |-> spec, env |-> env,
              fieldDescriptors |->
                 CompileDescriptors(env,
                    ParseResource(spec, [f \in DOMAIN spec |-> "any"], order).descriptors),
              specSchema |-> specSchema,
              validatedFieldDescriptors |-> <<>>, kept |-> <<>>,
              err |-> NoRevalidationError]

\* ParseResource against the spec schema and the loop over the descriptors
Revalidate ==
    /\ revalidated.phase = "compiled"
    /\ \E order \in Enumerations(DOMAIN revalidated.spec) :
          LET validated == ParseResource(revalidated.spec, revalidated.specSchema, order)
              r == revalidateFrom(revalidated.fieldDescriptors, validated.descriptors, 1, 1)
          IN  revalidated' =
                 IF validated.err # "none"
                 THEN [revalidated EXCEPT
                          !.phase = "failed",
                          !.err = [NoRevalidationError EXCEPT !.kind = "parse"]]
                 ELSE IF r.err # NoRevalidationError
                 THEN [revalidated EXCEPT
                          !.phase = IF r.err.kind = "indexOutOfRange" THEN "panic" ELSE "failed",
                          !.validatedFieldDescriptors = validated.descriptors,
                          !.err = r.err]
                 ELSE [revalidated EXCEPT
                          !.phase = "kept",
                          !.validatedFieldDescriptors = validated.descriptors,
                          !.kept = r.descriptors]
    /\ UNCHANGED <<builderVars, typecheck, parsed, translated, registry, mapper, classified,
                   runtimeTypes, bound, builds>>

SpecRevalidate == InitRevalidate /\ [][Revalidate]_vars

----------------------------------------------------------------------------
(* runtimeTypesFromTransformation: the concrete type of the typed field    *)
(* of a node, resolved from its field descriptors                          *)

\* NestedTypedFields of the download transformation
typedFields == <<"repository">>

\* matchSegments: how the path of a field descriptor lies to the typed field
Relations == {"none", "child", "prefix", "equal"}

\* the ranks of the relations: matchNone, matchChild, matchPrefix, matchEqual
Rank(relation) ==
    CASE relation = "none"   -> 0
      [] relation = "child"  -> 1
      [] relation = "prefix" -> 2
      [] relation = "equal"  -> 3

\* what the type a descriptor stands for leads to: the parent expression of
\* a child does not compile, the provider has no declared type of its name,
\* the declared type has no discriminator, or it has one
TypeOutcomes == {"issues", "noDeclType", "noDiscriminator", "type"}

\* a field descriptor, by its relation to the typed field and by its type
ResolutionDescriptors ==
    {d \in [match : Relations, type : TypeOutcomes] : d.type = "issues" => d.match = "child"}
DescriptorLists == UNION {[1..k -> ResolutionDescriptors] : k \in 0..MaxFields}

\* what the spec holds at <typed field>.type
StaticTypes == {"type", "missing", "notString", "invalid"}

RECURSIVE bestFrom(_, _, _, _)
\* the loop over the field descriptors from the i-th on: the descriptor
\* whose type is best, 0 for none
bestFrom(fieldDescriptors, i, best, bestRank) ==
    IF i > Len(fieldDescriptors) THEN [best |-> best, err |-> "none"]
    ELSE LET mr == Rank(fieldDescriptors[i].match) IN
         IF mr # Rank("none") /\ mr > bestRank
         THEN IF mr = Rank("child") /\ fieldDescriptors[i].type = "issues"
              THEN [best |-> 0, err |-> "issues"]
              ELSE bestFrom(fieldDescriptors, i + 1, i, mr)
         ELSE bestFrom(fieldDescriptors, i + 1, best, bestRank)

\* the result of a call: a type and the descriptor it came from
RuntimeType(type, of) == [type |-> type, of |-> of]
NilType == RuntimeType("nil", 0)

runtimeTypesFromTransformation(fieldDescriptors, static) ==
    LET b == bestFrom(fieldDescriptors, 1, 0, Rank("none")) IN
    IF b.err # "none" THEN [ret |-> NilType, err |-> b.err]
    ELSE IF b.best = 0
    THEN IF static = "type"
         THEN [ret |-> RuntimeType(typedFields[1], 0), err |-> "none"]
         ELSE [ret |-> NilType, err |-> static]
    ELSE IF fieldDescriptors[b.best].type = "noDeclType"
    THEN [ret |-> NilType, err |-> "noDeclType"]
    ELSE IF fieldDescriptors[b.best].type = "noDiscriminator"
    THEN [ret |-> NilType, err |-> "resolve"]
    ELSE [ret |-> RuntimeType(typedFields[1], b.best), err |-> "none"]

\* the static analysis of a node is about to resolve its typed field
InitResolve ==
    /\ impl = "dag"
    /\ tgd = <<>>
    /\ InitBuilder
    /\ typecheck = NoCheck
    /\ parsed = NoParse
    /\ translated = NoTranslation
    /\ registry = NoRegistry
    /\ mapper = NoMapper
    /\ classified = NoClassification
    /\ revalidated = NoRevalidation
    /\ bound = NoBound
    /\ builds = NoBuilds
    /\ \E fieldDescriptors \in DescriptorLists, static \in StaticTypes :
          runtimeTypes = [NoResolution EXCEPT !.phase = "call",
                                              !.fieldDescriptors = fieldDescriptors,
                                              !.static = static]

\* the call of runtimeTypesFromTransformation
ResolveRuntimeTypes ==
    /\ runtimeTypes.phase = "call"
    /\ LET r == runtimeTypesFromTransformation(runtimeTypes.fieldDescriptors,
                                               runtimeTypes.static)
       IN  runtimeTypes' = [runtimeTypes EXCEPT !.phase = "return", !.ret = r.ret,
                                                !.err = r.err]
    /\ UNCHANGED <<builderVars, typecheck, parsed, translated, registry, mapper, classified,
                   revalidated, bound, builds>>

SpecResolve == InitResolve /\ [][ResolveRuntimeTypes]_vars

----------------------------------------------------------------------------
(* The numeric bounds of a schema as the two adaptors of cel/jsonschema    *)
(* read them: adaptor.go with uint64 bounds, and the adaptor of the        *)
(* apiserver schema interface with int64 bounds                            *)

Adaptors == {"uint64", "int64"}

\* the bounds held as a json.Number and those held as a *uint64
NumberFields == {"minimum", "maximum", "multipleOf"}
PointerFields == {"minItems", "maxItems", "minLength", "maxLength", "minProperties",
                  "maxProperties"}

\* the texts a json.Number holds: none, a text that is no number, a number
\* beyond the range of a float64, and numbers
NumberTexts == {"", "abc", "1e999", "0", "1", "2.5"}

\* math.MaxInt64 as a uint64, and the comparison with it
MaxInt64 == <<Limb - 1, Limb - 1, Limb - 1, Limb \div 2 - 1>>
AboveMaxInt64(x) == x[4] > MaxInt64[4]

\* what a read gives: a value, or the panic of the goroutine
Value(v) == [kind |-> "value", value |-> v]
Panic(why) == [kind |-> "panic", value |-> why]

\* json.Number.Float64: strconv.ParseFloat of the text
Float64(text) ==
    CASE text \in {"", "abc"} -> [f |-> "0", err |-> "syntax"]
      [] text = "1e999"       -> [f |-> "+Inf", err |-> "range"]
      [] OTHER                -> [f |-> text, err |-> "none"]

\* Minimum, Maximum and MultipleOf of both adaptors
NumberBound(text) ==
    IF Float64(text).err # "none" THEN Panic(Float64(text).err) ELSE Value(Float64(text).f)

\* MinItems .. MaxProperties of adaptor.go
Uint64Bound(pointer) == IF pointer.nil THEN Value(Uint64(0)) ELSE Value(pointer.value)

\* MinItems .. MaxProperties of the int64 adaptor
Int64Bound(pointer) ==
    IF pointer.nil THEN Panic("nil pointer dereference")
    ELSE IF AboveMaxInt64(pointer.value) THEN Panic("cannot be parsed to int64")
    ELSE Value(pointer.value)

\* a schema is about to be asked for one of its bounds
InitBounds ==
    /\ impl = "dag"
    /\ tgd = <<>>
    /\ InitBuilder
    /\ typecheck = NoCheck
    /\ parsed = NoParse
    /\ translated = NoTranslation
    /\ registry = NoRegistry
    /\ mapper = NoMapper
    /\ classified = NoClassification
    /\ revalidated = NoRevalidation
    /\ runtimeTypes = NoResolution
    /\ builds = NoBuilds
    /\ \E adaptor \in Adaptors :
          \/ \E field \in NumberFields, raw \in NumberTexts :
                bound = [NoBound EXCEPT !.phase = "call", !.adaptor = adaptor,
                                        !.field = field, !.raw = raw]
          \/ \E field \in PointerFields, raw \in Pointers(MaxLengths \cup {MaxInt64}) :
                bound = [NoBound EXCEPT !.phase = "call", !.adaptor = adaptor,
                                        !.field = field, !.raw = raw]

\* the call of the accessor of the bound
ReadBound ==
    /\ bound.phase = "call"
    /\ bound' = [bound EXCEPT
                    !.phase = "return",
                    !.ret = IF bound.field \in NumberFields THEN NumberBound(bound.raw)
                            ELSE IF bound.adaptor = "uint64" THEN Uint64Bound(bound.raw)
                            ELSE Int64Bound(bound.raw)]
    /\ UNCHANGED <<builderVars, typecheck, parsed, translated, registry, mapper, classified,
                   revalidated, runtimeTypes, builds>>

SpecBounds == InitBounds /\ [][ReadBound]_vars

----------------------------------------------------------------------------
(* Two calls of Builder.NewTransferGraph of the two-pass builder run at    *)
(* the same time on one Builder, each with the EnvBuilder it made          *)

Builds == {1, 2}

\* the node ids of the definitions the two calls are given
BuildIds == {"a", "b"}

\* the definitions built: nodes with distinct ids in the order the static
\* pass visits them, each with the node ids its expressions mention
BuildDefinitions ==
    {t \in UNION {[1..k -> [id : BuildIds, refs : SUBSET BuildIds]] : k \in 1..2} :
        \A i, j \in DOMAIN t : t[i].id = t[j].id => i = j}

\* a process-wide environment builder
EnvBuilderShared(b) == 1

\* builder, err := NewEnvBuilder(...): the environment builder a call
\* holds is the one it allocated
EnvBuilderOf(b) == b

\* the declared type a call makes for a node: an object of its own
DeclTypeOf(b, id) == <<b, TypeName(id)>>

\* NewEnvBuilder of the call b
CallNewEnvBuilder(b) ==
    /\ builds.calls[b].pc = "new"
    /\ builds' = [builds EXCEPT
                     !.calls[b].pc = "static",
                     !.envBuilders[EnvBuilderOf(b)] =
                        <<Binding("environment", DeclTypeOf(b, "environment"))>>]

\* CurrentEnv and the compilation of the expressions of the next node
CallCompile(b) ==
    LET c == builds.calls[b]
        options == builds.envBuilders[EnvBuilderOf(b)]
    IN  /\ c.pc = "static" /\ c.next <= Len(c.tgd)
        /\ builds' = [builds EXCEPT
                         !.calls[b].snapshot = options,
                         !.calls[b].pc =
                            IF Compiles(c.tgd[c.next].refs, CurrentEnv(options))
                            THEN "register" ELSE "done",
                         !.calls[b].result =
                            IF Compiles(c.tgd[c.next].refs, CurrentEnv(options))
                            THEN "none" ELSE "error"]

\* RegisterEnvOption for the node compiled
CallRegister(b) ==
    LET c == builds.calls[b] IN
    /\ c.pc = "register"
    /\ builds' = [builds EXCEPT
                     !.envBuilders[EnvBuilderOf(b)] =
                        RegisterEnvOption(@, Binding(c.tgd[c.next].id,
                                                     DeclTypeOf(b, c.tgd[c.next].id))),
                     !.calls[b].next = @ + 1,
                     !.calls[b].pc = "static"]

\* the passes are over: the graph is returned
CallReturn(b) ==
    LET c == builds.calls[b] IN
    /\ c.pc = "static" /\ c.next > Len(c.tgd)
    /\ builds' = [builds EXCEPT !.calls[b].pc = "done", !.calls[b].result = "graph"]

InitBuilds ==
    /\ impl = "processor"
    /\ tgd = <<>>
    /\ InitBuilder
    /\ typecheck = NoCheck
    /\ parsed = NoParse
    /\ translated = NoTranslation
    /\ registry = NoRegistry
    /\ mapper = NoMapper
    /\ classified = NoClassification
    /\ revalidated = NoRevalidation
    /\ runtimeTypes = NoResolution
    /\ bound = NoBound
    /\ \E definitions \in [Builds -> BuildDefinitions] :
          builds = [calls |-> [b \in Builds |->
                                  [tgd |-> definitions[b], pc |-> "new", next |-> 1,
                                   snapshot |-> <<>>, result |-> "none"]],
                    envBuilders |-> [b \in Builds |-> <<>>]]

NextBuilds ==
    /\ \E b \in Builds :
          CallNewEnvBuilder(b) \/ CallCompile(b) \/ CallRegister(b) \/ CallReturn(b)
    /\ UNCHANGED <<builderVars, typecheck, parsed, translated, registry, mapper, classified,
                   revalidated, runtimeTypes, bound>>

SpecBuilds == InitBuilds /\ [][NextBuilds]_vars

----------------------------------------------------------------------------
(* Properties                                                              *)

\* the bindings of the typing environment that carry the name n
BindingsOf(options, n) == {i \in DOMAIN options : options[i].name = n}

\* two transformations of the definition share an id
HasDuplicate(t) == \E i, j \in DOMAIN t : i # j /\ t[i].id = t[j].id

\* the references of the definition to declared nodes
RefEdges(t) == UNION {{<<t[i].id, r>> : r \in t[i].refs \cap NodeIds(t)} : i \in DOMAIN t}

\* the references of the definition form a cycle
Cyclic(t) == \E e \in RefEdges(t) : e[1] \in Reachable(RefEdges(t), {e[2]})

Index(s, x) == CHOOSE i \in DOMAIN s : s[i] = x

\* the failures that stop a build before its dependency graph is complete
\* and that have nothing to do with the shape of the references
CollaboratorFailures == {"build", "naming", "environment", "unknownFunctions"}

\* C1: in each pass a node moves only Pending -> Visiting -> Done or
\* Pending -> Visiting -> Failed, and it enters Visiting only when every node
\* of its dependency set is Done in that same pass.
C1_NodeStateMachine ==
    [][\A p \in Passes, n \in Ids :
          state'[p][n] # state[p][n] =>
             \/ /\ state[p][n] = "Pending" /\ state'[p][n] = "Visiting"
                /\ \A d \in Range(dependencies[n]) : state[p][d] = "Done"
             \/ /\ state[p][n] = "Visiting"
                /\ state'[p][n] \in {"Done", "Failed"}]_vars

\* a node with dependencies is being visited in the runtime pass
C1_Witness ==
    \E n \in Ids : dependencies[n] # <<>> /\ state[2][n] = "Visiting"

\* C2: no runtime-evaluation visit begins unless the static-analysis pass
\* finished with every node Done; after a static-analysis failure the build
\* fails and nothing is ever evaluated.
C2_StaticBeforeRuntime ==
    /\ (\E n \in Ids : state[2][n] # "Pending") =>
          \A n \in NodeIds(tgd) : state[1][n] = "Done"
    /\ (\E n \in Ids : state[1][n] = "Failed") =>
          /\ \A n \in Ids : state[2][n] = "Pending"
          /\ evaluated = {}
          /\ result # "graph"
          /\ pc = "done" => result = "error"

\* the build ended after one node completed static analysis and another failed it
C2_Witness ==
    /\ pc = "done"
    /\ \E n, m \in Ids : state[1][n] = "Done" /\ state[1][m] = "Failed"

\* C3: once a visit failed in a pass no Pending node enters Visiting in that
\* pass, and the build returns the error of the first failure.
C3_FailFast ==
    [][/\ \A p \in Passes :
             (\E n \in Ids : state[p][n] = "Failed") =>
                \A m \in Ids : state[p][m] = "Pending" => state'[p][m] = "Pending"
       /\ (pc' = "done" /\ failures' # <<>>) =>
             (result' = "error" /\ err' = failures'[1].err)]_vars

\* a build returned the error of a failed visit while another node was still Pending
C3_Witness ==
    /\ pc = "done" /\ failures # <<>>
    /\ \E p \in Passes, n \in NodeIds(tgd) : state[p][n] = "Pending" /\ Ready(p, n)

\* C4: a graph is returned only if every node reached Done in both passes;
\* every failure yields an error and no graph.
C4_GraphOnlyOnSuccess ==
    /\ result = "graph" =>
          /\ pc = "done" /\ err = NoErr /\ failures = <<>>
          /\ ~HasDuplicate(tgd) /\ ~Cyclic(tgd)
          /\ \A i \in DOMAIN tgd : tgd[i].refs \subseteq NodeIds(tgd)
          /\ impl = "processor" =>
                \A p \in Passes, n \in NodeIds(tgd) : state[p][n] = "Done"
    /\ (err # NoErr \/ failures # <<>>) => result # "graph"
    /\ (pc = "done" /\ (err # NoErr \/ failures # <<>>)) => result = "error"
    /\ pc = "done" => result \in {"graph", "error"}

\* the two-pass build of three nodes with dependencies returned a graph
C4_Witness ==
    /\ result = "graph" /\ impl = "processor"
    /\ Cardinality(vertices) = 3 /\ edges # {}

\* C5: when the build succeeds the topological order holds every node
\* exactly once and every dependency comes before its dependent.
C5_TopologicalOrder ==
    (result = "graph" /\ impl = "dag") =>
       /\ Len(topologicalOrder) = Cardinality(NodeIds(tgd))
       /\ Range(topologicalOrder) = NodeIds(tgd)
       /\ \A c \in NodeIds(tgd) : \A p \in Range(dependencies[c]) :
             Index(topologicalOrder, p) < Index(topologicalOrder, c)
       /\ \A c \in NodeIds(tgd) : Range(dependencies[c]) = NodeOf(tgd, c).refs

\* a graph of three nodes was returned whose order is not the declaration order
C5_Witness ==
    /\ result = "graph" /\ impl = "dag"
    /\ Len(topologicalOrder) = 3 /\ Cardinality(edges) >= 2
    /\ \E i \in DOMAIN topologicalOrder : topologicalOrder[i] # tgd[i].id

\* C6: a definition whose references form a cycle never yields a topological
\* order or a graph; unless a collaborator fails or another defect of the
\* definition is met first, the build fails with the cycle error; a graph
\* that is returned holds an edge for every reference.
C6_CycleFails ==
    /\ Cyclic(tgd) =>
          /\ result # "graph" /\ topologicalOrder = <<>>
          /\ pc \in {"build", "graph", "vertices", "deps", "done"}
          /\ pc = "done" =>
                /\ result = "error"
                /\ err.kind \in {"cycle", "duplicateID", "unknownResources"} \cup CollaboratorFailures
                /\ (~HasDuplicate(tgd)
                    /\ \A i \in DOMAIN tgd : tgd[i].refs \subseteq NodeIds(tgd))
                      => err.kind \in {"cycle"} \cup CollaboratorFailures
    /\ result = "graph" => RefEdges(tgd) \subseteq edges

\* a build failed with the cycle error on a cycle of two distinct nodes
C6_Witness ==
    /\ pc = "done" /\ err.kind = "cycle" /\ impl = "dag"
    /\ \E e \in edges : e[1] # e[2] /\ <<e[2], e[1]>> \in RefEdges(tgd)

\* C7: two transformations sharing an id make the build fail, with the
\* duplicate-id error unless a transformation fails to build first, and
\* before any vertex or edge of the dependency graph exists.
C7_DuplicateID ==
    HasDuplicate(tgd) =>
       /\ vertices = {} /\ edges = {}
       /\ result # "graph"
       /\ pc \in {"build", "done"}
       /\ pc = "done" => (result = "error" /\ err.kind \in {"duplicateID", "build"})

\* a build failed with the duplicate-id error after another node had been built
C7_Witness ==
    /\ pc = "done" /\ err.kind = "duplicateID" /\ HasDuplicate(tgd)
    /\ Len(tgd) = 3 /\ tgd[1].id # tgd[2].id

\* C8: when a node begins step 1 of static analysis the environment it reads
\* holds the declared-type binding of every node it depends on.
C8_DependenciesBound ==
    \A n \in Ids : snapshot[n] # <<>> =>
       \A d \in Range(dependencies[n]) :
          \E i \in DOMAIN snapshot[n] : snapshot[n][i] = Binding(d, TypeName(d))

\* a node with two dependencies has read the environment
C8_Witness ==
    \E n \in Ids : Len(dependencies[n]) = 2 /\ snapshot[n] # <<>>

\* C9: the environment holds the pseudo-node and exactly one binding per
\* node whose static analysis succeeded; a node whose static analysis has
\* not begun or has failed has no binding.
C9_BindingsOfSucceeded ==
    impl = "processor" =>
       /\ envOptions # <<>> => Cardinality(BindingsOf(envOptions, "environment")) = 1
       /\ \A n \in Ids :
             /\ state[1][n] = "Done" => Cardinality(BindingsOf(envOptions, n)) = 1
             /\ state[1][n] \in {"Pending", "Failed"} => BindingsOf(envOptions, n) = {}

C11_ContextOfDependenciesOnly ==
    \A n \in Ids : context[n] \subseteq Range(dependencies[n])

\* a node was evaluated after a node it reaches but does not depend on was Done
C11_Witness ==
    \E n \in evaluated, d, m \in Ids :
       /\ d \in Range(dependencies[n]) /\ m \in Range(dependencies[d])
       /\ m \notin Range(dependencies[n])
       /\ state[2][m] = "Done" /\ state[2][n] = "Done"

\* C12: a node that completed its runtime-evaluation visit has its output
\* stored under its id, and the evaluation of every node that depends on it
\* was given that output.
C12_OutputsStored ==
    /\ \A n \in Ids : state[2][n] = "Done" => n \in outputs
    /\ \A n \in evaluated : Range(dependencies[n]) \subseteq context[n]

\* the dependency graph is complete
GraphBuilt ==
    \/ pc \in {"validate", "static", "runtime"}
    \/ pc = "deps" /\ discovered = vertices
    \/ result = "graph"

\* C13: once the dependency graph is built it holds the edge child -> parent
\* exactly when an expression of child references the declared node parent,
\* and the dependency list of child holds each target of its edges once.
C13_EdgesIffReferences ==
    GraphBuilt =>
       /\ edges = RefEdges(tgd)
       /\ \A n \in NodeIds(tgd) :
             /\ Range(dependencies[n]) = {p \in Ids : <<n, p>> \in edges}
             /\ Len(dependencies[n]) = Cardinality(Range(dependencies[n]))

\* builder.go returned a graph in which a node has two dependencies
C13_Witness ==
    /\ result = "graph" /\ impl = "dag"
    /\ \E n \in Ids : Len(dependencies[n]) = 2

\* a node of the definition references its own id
SelfReference(t) == \E i \in DOMAIN t : t[i].id \in t[i].refs

\* C14: the dependency graph never holds an edge from a node to itself, and
\* a definition with a node that references its own id yields no graph.
C14_NoSelfLoop ==
    /\ \A e \in edges : e[1] # e[2]
    /\ SelfReference(tgd) => result # "graph"

\* the build of a definition with a self-reference ended at the refused edge,
\* after the edge of another node had been added
C14_Witness ==
    /\ pc = "done" /\ err.kind = "cycle" /\ edges # {}
    /\ err.node \in NodeOf(tgd, err.node).refs
    /\ ~Cyclic([i \in DOMAIN tgd |-> [id |-> tgd[i].id, refs |-> tgd[i].refs \ {tgd[i].id}]])

\* an expression of the definition references an undeclared id
HasUnknown(t) == \E i \in DOMAIN t : ~(t[i].refs \subseteq NodeIds(t))

\* C15: a reference to an identifier that is neither a declared node nor the
\* pseudo-vertex, or a call of a function outside the vocabulary, yields no
\* graph; the build fails, and the error of the inspection names the
\* offending identifiers.  Unless a collaborator fails or another defect of
\* the definition is met first the error is the one of the unknown reference.
C15_UnknownReferences ==
    /\ HasUnknown(tgd) =>
          /\ result # "graph"
          /\ pc = "done" =>
                /\ result = "error"
                /\ (~HasDuplicate(tgd) /\ ~Cyclic(tgd))
                      => err.kind \in {"unknownResources"} \cup CollaboratorFailures
    /\ (unknown.resources # {} \/ unknown.functions # {}) =>
          /\ pc = "done" /\ result = "error"
          /\ err.kind \in {"unknownResources", "unknownFunctions"}
          /\ err.names # {}
          /\ err.names = IF unknown.resources # {} THEN unknown.resources
                                                   ELSE unknown.functions
    /\ err.kind = "unknownResources" =>
          err.names = NodeOf(tgd, err.node).refs \ NodeIds(tgd)

\* a build failed on the unknown reference of the node it inspected second
C15_Witness ==
    /\ pc = "done" /\ err.kind = "unknownResources"
    /\ Len(tgd) = 2 /\ Cardinality(discovered) = 1

\* the node is between reading the environment and registering its type
InVisit(n) == visit[n] \in {"begin", "resolve"}

C17_UnsupportedKindFails ==
    \A n \in Ids :
       (analyzedTransformations[n].present
        /\ analyzedTransformations[n].prototype # "download") =>
          /\ state[2][n] # "Done"
          /\ result # "graph"

\* C18: once the cancellation signal is raised no node visit begins, and the
\* build ends with an error.
C18_CancellationObserved ==
    [][/\ cancelled =>
             \A p \in Passes, n \in Ids :
                state'[p][n] = "Visiting" => state[p][n] = "Visiting"
       /\ (cancelled' /\ pc' = "done") => result' = "error"]_vars

ExactlyOne(field) ==
    /\ Len(extractExpressions(field)) = 1
    /\ Len(field) = Len(extractExpressions(field)[1]) + 3
    /\ field[1] = "$" /\ field[2] = "{" /\ field[Len(field)] = "}"

\* the field value holds embedded expressions and is not exactly one
Template(field) == Len(extractExpressions(field)) >= 1 /\ ~ExactlyOne(field)

\* the declared type of the schema at the path
DeclaredType(schema) ==
    IF schema = "string" THEN StringType
    ELSE IF schema = "integer" THEN IntType
    ELSE IF schema = "boolean" THEN CelType("bool", "none")
    ELSE DynType

\* the one descriptor of a standalone expression
StandaloneEmitted ==
    ExactlyOne(parsed.field) =>
       /\ parsed.err = "none"
       /\ parsed.descriptors =
             <<[expressions |-> <<SubSeq(parsed.field, 3, Len(parsed.field) - 1)>>,
                expectedType |-> DeclaredType(parsed.schema),
                path |-> parsed.path, standalone |-> TRUE]>>

\* the one descriptor of a template
TemplateEmitted ==
    /\ parsed.err = "none"
    /\ parsed.descriptors =
          <<[expressions |-> extractExpressions(parsed.field),
             expectedType |-> StringType,
             path |-> parsed.path, standalone |-> FALSE]>>

----------------------------------------------------------------------------
(* Size estimation of the schema translator                                *)

\* the call of SchemaDeclType has returned the type of a plain string
PlainString == /\ translated.phase = "return"
               /\ translated.schema.type = "string"
               /\ translated.schema.format = ""

\* C21: a plain string schema with the explicit maxLength n is translated to
\* a type whose maxElements is the product 4 * n, whatever uint64 n is
C21_MaxElementsFromMaxLength ==
    (PlainString /\ ~translated.schema.maxLength.nil)
    => translated.declType.maxElements \o <<0>>
         = Scale(translated.schema.maxLength.value, 4, 0)

\* C22: an array schema without maxItems, whose item type has the minimum
\* serialized size m, is translated to a list type whose maxElements is
\* (MaxRequestSizeBytes - 2) / (m + 1)
C22_MaxItemsFromMinSize ==
    (/\ translated.phase = "return"
     /\ translated.schema.type = "array"
     /\ translated.schema.items.exposed
     /\ translated.schema.maxItems.nil)
    => translated.declType
         = DeclType("list", Uint64((MaxRequestSizeBytes - 2)
                                     \div (translated.schema.items.minSerializedSize + 1)))

\* C23: a plain string schema without maxLength is translated to a type whose
\* maxElements is the length of its longest enum literal when it has an enum
\* and MaxRequestSizeBytes - 2 when it has none
C23_MaxElementsWithoutMaxLength ==
    (PlainString /\ translated.schema.maxLength.nil)
    => translated.declType.maxElements
         = IF translated.schema.enum # <<>>
           THEN Uint64(LongestLiteral(translated.schema.enum, 0))
           ELSE Uint64(MaxRequestSizeBytes - 2)
----------------------------------------------------------------------------
(* The chain of TestGraphBuilder                                           *)

\* download1, download2 and download3 of the test, as the ids a, b and c:
\* a holds literals, b expressions over a.spec, c expressions over b.spec
Chain == <<[id |-> "a", refs |-> {}], [id |-> "b", refs |-> {"a"}],
           [id |-> "c", refs |-> {"b"}]>>

----------------------------------------------------------------------------
(* The plugin registries                                                   *)

\* C25: a plugin's process is started at most once, and a lookup that finds
\* the process of its plugin started by an earlier lookup returns the plugin
\* that lookup constructed
C25_StartedOnceAndReturned ==
    /\ \A p \in Plugins : registry.spawned[p] <= 1
    /\ \A c \in Callers :
          (/\ registry.caller[c].pc = "idle"
           /\ registry.caller[c].op = "GetPlugin"
           /\ registry.caller[c].held \in {"running", "constructed"})
          => registry.caller[c].ret = "plugin"

\* C26: AddPlugin returns an error when one of the types it is to register
\* is taken, and every type is mapped to the plugin stored for it first
C26_FirstPluginKept ==
    /\ \A t \in Types : registry.registry[t] = registry.first[t]
    /\ registry.added.taken # {} => registry.added.ret = "error"

C26_Witness ==
    /\ registry.added.ret = "error"
    /\ \E t \in registry.added.taken : registry.registry[t] # registry.added.plugin
----------------------------------------------------------------------------
(* The schema mapper                                                       *)

Registrations == {"RegisterSchemaForType", "RegisterSchemaForPrototype"}

\* the step is, or begins, the call numbered n' of the goroutine c
Begins(c) == mapper'.caller[c].n # mapper.caller[c].n

\* C27: a registration for a type that has a schema returns an error and
\* leaves typeToSchema as it is; SchemaForType returns the schema stored for
\* the type and an error for a type without one
C27_RegisteredTypeRefused ==
    [][\A c \in Callers :
          Begins(c) =>
             LET call == mapper'.caller[c] IN
             /\ (call.op \in Registrations /\ call.held = "registered")
                => /\ call.pc = "idle" /\ call.ret = "error"
                   /\ mapper'.typeToSchema = mapper.typeToSchema
             /\ (call.op = "SchemaForType")
                => IF call.held = "registered"
                   THEN call.ret = "nil" /\ call.arg = mapper.typeToSchema[call.typ]
                   ELSE call.ret = "error"]_vars

C27_Witness ==
    \E c, g \in Callers :
       /\ mapper.caller[c].op \in Registrations
       /\ mapper.caller[c].held = "registered" /\ mapper.caller[c].ret = "error"
       /\ mapper.caller[g].op = "SchemaForType" /\ mapper.caller[g].ret = "nil"
       /\ mapper.caller[g].typ = mapper.caller[c].typ
       /\ mapper.caller[g].n > mapper.caller[c].n
       /\ mapper.caller[g].arg = mapper.first[mapper.caller[c].typ]
----------------------------------------------------------------------------
(* The kind of a template variable                                         *)

\* some expression the loop has gone through references a declared node
ReferencesNode(v) ==
    \E i \in 1..(v.next - 1) : v.expressions[i] \cap v.names # {}

\* C28: the variable is dynamic exactly when an expression gone through
\* references a declared node, expressions over "schema" alone leave it
\* static, and a dynamic variable stays dynamic
C28_DynamicIffReferencesNode ==
    [][/\ (classified'.Kind = "dynamic") <=> ReferencesNode(classified')
       /\ (classified.Kind = "dynamic") => (classified'.Kind = "dynamic")]_vars

C28_Witness ==
    /\ classified.phase = "done" /\ classified.Kind = "dynamic"
    /\ Len(classified.expressions) = 2
    /\ classified.expressions[1] \cap classified.names # {}
    /\ classified.expressions[2] = {"schema"}
----------------------------------------------------------------------------
(* The order of the nodes that no edge orders                              *)

\* the nodes of the definition t whose references all come before place k
\* of the order o and that are not placed before k themselves
ReadyAt(t, o, k) ==
    {v \in NodeIds(t) \ {o[i] : i \in 1..(k - 1)} :
        NodeOf(t, v).refs \subseteq {o[i] : i \in 1..(k - 1)}}

----------------------------------------------------------------------------
(* The checked form of an expression                                       *)

\* C30: the checked form kept for a node is set in a step of the static
\* analysis visit of that node, is the form compiled in that visit, and is
\* not changed afterwards; the runtime pass makes its program of exactly
\* that form
C30_CheckedFormImmutable ==
    [][\A n \in Ids :
          /\ analyzedTransformations'[n] # analyzedTransformations[n]
             => /\ ~analyzedTransformations[n].present
                /\ pc = "static" /\ state[1][n] = "Visiting"
                /\ analyzedTransformations'[n].AST = Compile(n, snapshot[n])
          /\ program'[n] # program[n]
             => /\ pc = "runtime" /\ state[2][n] = "Visiting"
                /\ analyzedTransformations[n].present
                /\ program'[n] = analyzedTransformations[n].AST]_vars

\* a graph was returned; the runtime pass made the program of a node of the
\* form compiled before the node's own binding was registered
C30_Witness ==
    /\ result = "graph" /\ impl = "processor"
    /\ \E n \in vertices :
          /\ program[n] = analyzedTransformations[n].AST
          /\ program[n].of = n
          /\ program[n].env # envOptions

\* the expected type the derived schema gives for the field at a path
ExpectedAt(path) ==
    LET v == revalidated.validatedFieldDescriptors
        k == CHOOSE k \in DOMAIN v : v[k].path = path
    IN  v[k].expectedType

\* every expression's output type is assignable to the expected type of
\* its field
AllAssignable ==
    \A i \in DOMAIN revalidated.fieldDescriptors :
       \A j \in DOMAIN revalidated.fieldDescriptors[i].expressions :
          IsAssignableType(ExpectedAt(revalidated.fieldDescriptors[i].path),
                           revalidated.fieldDescriptors[i].expressions[j].AST.OutputType)

\* C31: once the spec has parsed against the derived spec schema, the node
\* passes the re-validation when every expression's checked output type is
\* assignable to the expected type the derived schema gives for its field,
\* and it is rejected only when some expression's output type is not.
C31_RevalidationByAssignability ==
    (revalidated.phase \in {"kept", "failed", "panic"} /\ revalidated.err.kind # "parse")
       => ((revalidated.phase = "kept") <=> AllAssignable)

\* C36: after the static analysis of a node every field descriptor kept for
\* it carries the checked forms of its own expressions: the checked form at
\* the descriptor of path P was compiled from the expression the spec holds
\* at path P, whatever order the second parse enumerated the fields in.
C36_CheckedFormsOfOwnExpressions ==
    revalidated.phase = "kept" =>
       \A k \in DOMAIN revalidated.kept :
          LET d == revalidated.kept[k]
              held == extractExpressions(revalidated.spec[d.path])
          IN  /\ Len(d.expressions) = Len(held)
              /\ \A j \in DOMAIN d.expressions :
                    d.expressions[j].AST = CompileExpression(revalidated.env, held[j])

\* the field descriptors that match the typed field, and those among them
\* whose type has a concrete discriminator
Matching == {i \in DOMAIN runtimeTypes.fieldDescriptors :
                  runtimeTypes.fieldDescriptors[i].match # "none"}
Concrete == {i \in Matching : runtimeTypes.fieldDescriptors[i].type = "type"}

\* C32: among the field descriptors that match the typed field an exact
\* match is preferred over a prefix match and a prefix match over a parent
\* match; the first candidate in that order with a concrete discriminator
\* gives the type, and the build fails only when no candidate has one.
C32_FirstConcreteCandidateWins ==
    (runtimeTypes.phase = "return" /\ Matching # {}) =>
       IF Concrete = {} THEN runtimeTypes.err # "none"
       ELSE /\ runtimeTypes.err = "none"
            /\ runtimeTypes.ret.of \in Concrete
            /\ \A i \in Concrete :
                  Rank(runtimeTypes.fieldDescriptors[i].match)
                     <= Rank(runtimeTypes.fieldDescriptors[runtimeTypes.ret.of].match)

\* the bound read is absent, is no number, or does not fit the width of
\* the integer or the float it is read into
Malformed ==
    IF bound.field \in NumberFields THEN bound.raw \in {"", "abc", "1e999"}
    ELSE \/ bound.raw.nil
         \/ bound.adaptor = "int64" /\ AboveMaxInt64(bound.raw.value)

\* C33: the read of a malformed numeric bound ends the translation (the
\* panic of the accessor counted as such an end); it never gives a value in
\* place of the bound.
C33_MalformedBoundIsFatal ==
    (bound.phase = "return" /\ Malformed) => bound.ret.kind # "value"

\* C34: a string that is not one standalone expression, be it plain text or
\* a template, is accepted exactly where the expected types of the schema
\* hold string or any; elsewhere it is rejected without a descriptor and
\* with an error that names the expected types, the path and the shape met.
C34_StringOnlyWhereExpected ==
    (parsed.phase = "return" /\ ~isStandaloneExpression(parsed.field)) =>
       IF "string" \in getExpectedTypes(parsed.schema)
             \/ "any" \in getExpectedTypes(parsed.schema)
       THEN parsed.err = "none"
       ELSE /\ parsed.err = "expectedType"
            /\ parsed.descriptors = <<>>
            /\ parsed.message =
                  <<"expected", getExpectedTypes(parsed.schema), "type for path", parsed.path,
                    "got", "string">>

\* a template was rejected at an integer field with the error that names
\* the type integer and the path
C34_Witness ==
    /\ parsed.phase = "return" /\ parsed.schema = "integer"
    /\ parsed.field = <<"a", "$", "{", "a", "}">>
    /\ parsed.err = "expectedType"
    /\ parsed.message[2] = {"integer"} /\ parsed.message[4] = "spec.name"

RECURSIVE AloneFrom(_, _, _)
\* what a call returns for a definition when no other call runs: the nodes
\* from the k-th on, under the names registered before it
AloneFrom(t, k, names) ==
    IF k > Len(t) THEN "graph"
    ELSE IF t[k].refs \subseteq names THEN AloneFrom(t, k + 1, names \cup {t[k].id})
    ELSE "error"

\* C35: two calls of NewTransferGraph that run at the same time do not
\* interfere: the environment a call compiles against, and the environment
\* builder it holds, never hold a binding registered by the other call, and
\* each call returns what it returns when it runs alone.
C35_BuildsDoNotInterfere ==
    \A b \in DOMAIN builds.calls :
       LET c == builds.calls[b]
           held == builds.envBuilders[EnvBuilderOf(b)]
       IN  /\ \A i \in DOMAIN c.snapshot : c.snapshot[i].type[1] = b
           /\ \A i \in DOMAIN held : held[i].type[1] = b
           /\ c.pc = "done" => c.result = AloneFrom(c.tgd, 1, {"environment"})

\* both calls have registered their first node, and each has failed on a
\* second node that mentions a name only the other call has registered
C35_Witness ==
    /\ DOMAIN builds.calls = Builds
    /\ \A b \in Builds : builds.calls[b].pc = "done" /\ builds.calls[b].result = "error"
    /\ builds.calls[1].tgd = <<[id |-> "a", refs |-> {}], [id |-> "b", refs |-> {"b"}]>>
    /\ builds.calls[2].tgd = <<[id |-> "b", refs |-> {}], [id |-> "a", refs |-> {"a"}]>>
    /\ Len(builds.envBuilders[1]) = 2 /\ Len(builds.envBuilders[2]) = 2

\* the goroutines whose last call registered a schema for the type
Succeeded(typ) ==
    {c \in Callers : /\ mapper.caller[c].op \in Registrations
                     /\ mapper.caller[c].typ = typ
                     /\ mapper.caller[c].ret = "nil"}

\* C37: under any interleaving of RegisterSchemaForPrototype and
\* RegisterSchemaForType calls for one type at most one call succeeds, and
\* the schema stored for the type stays the one of the first successful
\* registration.
C37_OneRegistrationPerType ==
    \A typ \in Types :
       /\ Cardinality(Succeeded(typ)) <= 1
       /\ mapper.typeToSchema[typ] = mapper.first[typ]

\* the step is a call of AddPlugin
Added == registry'.added.n # registry.added.n

\* C38: when ComponentVersionRepositoryRegistry.AddPlugin returns an error
\* the registry is as it was before the call: the rejected plugin is
\* registered for none of its types.
C38_RejectedPluginLeavesNoTrace ==
    [][(/\ registry.kind = "componentversion"
        /\ Added
        /\ registry'.added.ret = "error")
       => registry'.registry = registry.registry]_vars

\* the types for which the capabilities declare the capability
Declared(caps, capability) ==
    {caps[i].type : i \in {j \in DOMAIN caps : caps[j].capability = capability}}

\* C39: AddPlugin maps a type to the plugin only if the capabilities of the
\* plugin declare both the read and the write capability for the type; a
\* type declared with one of the two only is never mapped to the plugin.
C39_ReadAndWriteDeclared ==
    [][\A p \in Plugins, caps \in CapabilityLists :
          AddPluginCapabilities(p, caps)
          => \A t \in Types :
                registry'.registry[t] # registry.registry[t]
                => t \in Declared(caps, "read") \cap Declared(caps, "write")]_vars
====
